---- MODULE Spec2Model ----
(***************************************************************************)
(* Credit-risk analysis engine (COBAC/CEMAC): normalized ledger,           *)
(* aggregation (financial_analyzer.py), regulatory conformity              *)
(* (regulations_cobac.py) and scoring / provisioning (scoring_cobac.py).   *)
(*                                                                         *)
(* Units.  Python floats are modelled by exact integers:                   *)
(*   - ledger amounts and monetary aggregates: currency units;             *)
(*   - ratios and percentages (parsed from the display strings):           *)
(*     hundredths, so 15 (percent) is 1500 and the ratio 0.5 is 50;        *)
(*   - sub-scores: points; the weighted total: hundredths of a point;      *)
(*     the returned, rounded score_total: tenths of a point;               *)
(*   - provision rates: percent; provision_requise and montant_net:        *)
(*     hundredths of a currency unit.                                      *)
(* A dictionary value is a cell [kind, val]: kind "missing" is an absent   *)
(* key, "float" a number, "pct" a string such as "12.5%", "dec" a string   *)
(* such as "1.50", "txt" a non-numeric string such as "N/A".               *)
(***************************************************************************)
EXTENDS Integers, Sequences, FiniteSets, TLC

VARIABLES
    pc,                       \* position of the run being modelled
    df,                       \* the consolidated ledger (set of entries)
    sig_results,              \* calculate_soldes_intermediaires output
    ratios_results,           \* calculate_financial_ratios output
    working_capital_results,  \* calculate_working_capital_indicators output
    score_args,               \* arguments of calculer_score_global
    score_cobac,              \* its return value
    conformite,               \* check_seuils_conformite outcome
    cat_args,                 \* two scores handed to _determiner_categorie
    cat_res,                  \* the two categories returned
    prov_args,                \* (montant_pret, categorie)
    provisionnement,          \* calculer_provisionnement(montant, categorie)
    provisionnement_double,   \* calculer_provisionnement(2 * montant, categorie)
    bilan_file,               \* raw balance-sheet table given to load_excel_data
    cpc_file,                 \* raw income-statement table
    flux_file,                \* raw cash-flow table, or None
    reshape_args,             \* (df, source) handed to _reshape_financial_data
    reshape_res,              \* its outcome: raised, or the long-format rows
    nature_args,              \* (account_code, source) handed to _determine_nature
    nature_res                \* the nature returned

vars == <<pc, df, sig_results, ratios_results, working_capital_results,
          score_args, score_cobac, conformite, cat_args, cat_res,
          prov_args, provisionnement, provisionnement_double,
          bilan_file, cpc_file, flux_file, reshape_args, reshape_res,
          nature_args, nature_res>>

----------------------------------------------------------------------------
(* Bounds *)

\* largest loan amount tried besides the documented 100000
MaxMontant == 12

\* largest number of rows of a ledger
MaxEntries == 2

\* largest amount of a ledger row
MaxAmount == 2

\* largest score, in points, handed to _determiner_categorie
MaxScore == 64

----------------------------------------------------------------------------
(* Small helpers *)

Abs(x) == IF x < 0 THEN 0 - x ELSE x

Max2(a, b) == IF a >= b THEN a ELSE b

Min2(a, b) == IF a <= b THEN a ELSE b

----------------------------------------------------------------------------
(* regulations_cobac.py : REGLEMENTATION_COBAC *)

\* The entries of classification_creances that are dictionaries with a
\* 'provision' rate (percent); 'reference' maps to a plain string.
classification_creances ==
    [c \in {"standard", "suivi_special", "douteux", "contentieux"} |->
        CASE c = "standard"      -> [provision |-> 0,   seuil_score |-> 60]
          [] c = "suivi_special" -> [provision |-> 20,  seuil_score |-> 50]
          [] c = "douteux"       -> [provision |-> 50,  seuil_score |-> 40]
          [] c = "contentieux"   -> [provision |-> 100, seuil_score |-> 30]]

\* REGLEMENTATION_COBAC['seuils_alertes'], in hundredths.
seuils_alertes ==
    [rentabilite_min |-> 300, endettement_max |-> 200,
     liquidite_min |-> 100, autonomie_min |-> 2000]

----------------------------------------------------------------------------
(* scoring_cobac.py : ScoringSystemCOBAC.__init__ *)

\* self.categories in insertion order, with score_min.
categories ==
    << [categorie |-> "A", score_min |-> 60],
       [categorie |-> "B", score_min |-> 50],
       [categorie |-> "C", score_min |-> 40],
       [categorie |-> "D", score_min |-> 30],
       [categorie |-> "E", score_min |-> 0] >>

\* self.poids_criteres, in hundredths.
poids_criteres ==
    [rentabilite |-> 25, structure |-> 25, liquidite |-> 20,
     tresorerie |-> 15, croissance |-> 15]

Criteres == {"rentabilite", "structure", "liquidite", "tresorerie", "croissance"}

----------------------------------------------------------------------------
(* scoring_cobac.py : _determiner_categorie.  The score is in hundredths   *)
(* of a point; the loop returns the first category, in insertion order,    *)
(* whose score_min the score reaches, and 'E' when none does.              *)

RECURSIVE FirstCategorie(_, _)
FirstCategorie(score100, i) ==
    IF i > Len(categories) THEN "E"
    ELSE IF score100 >= categories[i].score_min * 100 THEN categories[i].categorie
    ELSE FirstCategorie(score100, i + 1)

\* thresholds compared with > instead of >=
_determiner_categorie_strict(score100) ==
    IF score100 > 6000 THEN "A"
    ELSE IF score100 > 5000 THEN "B"
    ELSE IF score100 > 4000 THEN "C"
    ELSE IF score100 > 3000 THEN "D"
    ELSE "E"

_determiner_categorie(score100) == FirstCategorie(score100, 1)

----------------------------------------------------------------------------
(* scoring_cobac.py : calculer_provisionnement *)

\* The lookup REGLEMENTATION_COBAC['classification_creances'][categorie]
\* ['provision'] raises (KeyError for an absent key, TypeError for the
\* string under 'reference') unless categorie names a class dictionary.
ProvisionLookupRaises(categorie) == categorie \notin DOMAIN classification_creances

\* provision truncated to whole currency units
provision_tronquee(montant_pret, taux) == ((montant_pret * taux) \div 100) * 100

\* provision = montant_pret * taux, in hundredths of a currency unit
provision_requise(montant_pret, taux) == montant_pret * taux

\* the error re-raised instead of the fallback
fallback_relance(montant_pret) ==
    [montant_pret |-> montant_pret,
     categorie |-> "E",
     taux_provision |-> 100,
     provision_requise |-> montant_pret * 100,
     montant_net |-> 0,
     raised |-> TRUE]

\* except: "Fallback en cas d'erreur"
provision_fallback(montant_pret) ==
    [montant_pret |-> montant_pret,
     categorie |-> "E",
     taux_provision |-> 100,
     provision_requise |-> montant_pret * 100,
     montant_net |-> 0,
     raised |-> FALSE]

calculer_provisionnement(montant_pret, categorie) ==
    IF ~ProvisionLookupRaises(categorie)
    THEN LET taux == classification_creances[categorie].provision
             provision == provision_requise(montant_pret, taux)
         IN  [montant_pret |-> montant_pret,
              categorie |-> categorie,
              taux_provision |-> taux,
              provision_requise |-> provision,
              montant_net |-> montant_pret * 100 - provision,
              raised |-> FALSE]
    ELSE provision_fallback(montant_pret)

----------------------------------------------------------------------------
(* Dictionary cells and the float(...) conversions of the display strings *)

Cell(k, v) == [kind |-> k, val |-> v]

Missing == Cell("missing", 0)

\* dict.get(key, default): the default replaces an absent key only.
Get(cell, default) == IF cell.kind = "missing" THEN default ELSE cell

ParseOk(v) == [ok |-> TRUE, v |-> v]

ParseFail == [ok |-> FALSE, v |-> 0]

\* float(s.replace('%', '').replace(',', '.')): a number has no .replace
\* (AttributeError), a non-numeric string gives ValueError.
ParsePct(cell) ==
    IF cell.kind \in {"pct", "dec", "pctc", "decc"} THEN ParseOk(cell.val) ELSE ParseFail

\* float(s.replace(',', '.')): as above, and the '%' sign is not removed.
ParseDec(cell) ==
    IF cell.kind \in {"dec", "decc"} THEN ParseOk(cell.val) ELSE ParseFail

\* float(s.replace('%', '')) of check_seuils_conformite: no comma handling.
ParsePctNoComma(cell) ==
    IF cell.kind \in {"pct", "dec"} THEN ParseOk(cell.val) ELSE ParseFail

\* float(x) of check_seuils_conformite: numbers and plain decimal strings.
ParseFloat(cell) ==
    IF cell.kind \in {"float", "dec"} THEN ParseOk(cell.val) ELSE ParseFail

\* A value used in a numeric comparison (tn > 0, ca_precedent > 0):
\* comparing a string with a number raises TypeError.
IsNumber(cell) == cell.kind = "float"

----------------------------------------------------------------------------
(* scoring_cobac.py : the five sub-scores *)

\* thresholds compared with > instead of >=
_score_rentabilite_strict(ratios, annee) ==
    IF annee \notin DOMAIN ratios THEN 0
    ELSE LET p == ParsePct(Get(ratios[annee].rentabilite_nette, Cell("pct", 0)))
         IN  IF ~p.ok THEN 0
             ELSE IF p.v > 1500 THEN 25
             ELSE IF p.v > 1000 THEN 20
             ELSE IF p.v > 700 THEN 16
             ELSE IF p.v > 500 THEN 12
             ELSE IF p.v > 300 THEN 8
             ELSE IF p.v > 0 THEN 4
             ELSE 0

_score_rentabilite(ratios, annee) ==
    IF annee \notin DOMAIN ratios THEN 0
    ELSE LET p == ParsePct(Get(ratios[annee].rentabilite_nette, Cell("pct", 0)))
         IN  IF ~p.ok THEN 0
             ELSE IF p.v >= 1500 THEN 25
             ELSE IF p.v >= 1000 THEN 20
             ELSE IF p.v >= 700 THEN 16
             ELSE IF p.v >= 500 THEN 12
             ELSE IF p.v >= 300 THEN 8
             ELSE IF p.v >= 0 THEN 4
             ELSE 0

\* thresholds compared with < instead of <=
score_endettement_strict(e) ==
    IF e < 50 THEN 15
    ELSE IF e < 100 THEN 12
    ELSE IF e < 150 THEN 9
    ELSE IF e < 200 THEN 6
    ELSE 3

score_endettement(e) ==
    IF e <= 50 THEN 15
    ELSE IF e <= 100 THEN 12
    ELSE IF e <= 150 THEN 9
    ELSE IF e <= 200 THEN 6
    ELSE 3

score_autonomie(a) ==
    IF a >= 5000 THEN 10
    ELSE IF a >= 4000 THEN 8
    ELSE IF a >= 3000 THEN 6
    ELSE IF a >= 2000 THEN 4
    ELSE 2

_score_structure(ratios, annee) ==
    IF annee \notin DOMAIN ratios THEN 0
    ELSE LET e == ParseDec(Get(ratios[annee].ratio_endettement, Cell("dec", 0)))
             a == ParsePct(Get(ratios[annee].ratio_autonomie, Cell("pct", 0)))
         IN  IF ~e.ok \/ ~a.ok THEN 0
             ELSE score_endettement(e.v) + score_autonomie(a.v)

_score_liquidite(ratios, annee) ==
    IF annee \notin DOMAIN ratios THEN 0
    ELSE LET p == ParseDec(Get(ratios[annee].ratio_liquidite, Cell("dec", 0)))
         IN  IF ~p.ok THEN 0
             ELSE IF p.v >= 200 THEN 20
             ELSE IF p.v >= 150 THEN 16
             ELSE IF p.v >= 120 THEN 12
             ELSE IF p.v >= 100 THEN 8
             ELSE IF p.v >= 80 THEN 4
             ELSE 0

\* caf compared with abs(bfr) by >= instead of >
_score_tresorerie_egal(wc, annee) ==
    IF annee \notin DOMAIN wc THEN 0
    ELSE LET tn  == Get(wc[annee].tn, Cell("float", 0))
             caf == Get(wc[annee].caf, Cell("float", 0))
             bfr == Get(wc[annee].bfr, Cell("float", 0))
         IN  IF ~IsNumber(tn) THEN 0
             ELSE IF ~IsNumber(caf) THEN 0
             ELSE IF tn.val > 0 /\ caf.val > 0
                  THEN IF ~IsNumber(bfr) THEN 0
                       ELSE IF caf.val >= Abs(bfr.val) THEN 15 ELSE 12
             ELSE IF tn.val > 0 \/ caf.val > 0 THEN 8
             ELSE IF tn.val >= 0 - caf.val THEN 4
             ELSE 0

\* the fourth case comparing tn with caf instead of -caf
_score_tresorerie_signe(wc, annee) ==
    IF annee \notin DOMAIN wc THEN 0
    ELSE LET tn  == Get(wc[annee].tn, Cell("float", 0))
             caf == Get(wc[annee].caf, Cell("float", 0))
             bfr == Get(wc[annee].bfr, Cell("float", 0))
         IN  IF ~IsNumber(tn) THEN 0
             ELSE IF ~IsNumber(caf) THEN 0
             ELSE IF tn.val > 0 /\ caf.val > 0
                  THEN IF ~IsNumber(bfr) THEN 0
                       ELSE IF caf.val > Abs(bfr.val) THEN 15 ELSE 12
             ELSE IF tn.val > 0 \/ caf.val > 0 THEN 8
             ELSE IF tn.val >= caf.val THEN 4
             ELSE 0

\* The conditions are evaluated left to right with short-circuit 'and'/'or';
\* a comparison that is reached with a non-number raises and gives 0.
_score_tresorerie(wc, annee) ==
    IF annee \notin DOMAIN wc THEN 0
    ELSE LET tn  == Get(wc[annee].tn, Cell("float", 0))
             caf == Get(wc[annee].caf, Cell("float", 0))
             bfr == Get(wc[annee].bfr, Cell("float", 0))
         IN  IF ~IsNumber(tn) THEN 0
             ELSE IF ~IsNumber(caf) THEN 0
             ELSE IF tn.val > 0 /\ caf.val > 0
                  THEN IF ~IsNumber(bfr) THEN 0
                       ELSE IF caf.val > Abs(bfr.val) THEN 15 ELSE 12
             ELSE IF tn.val > 0 \/ caf.val > 0 THEN 8
             ELSE IF tn.val >= 0 - caf.val THEN 4
             ELSE 0

\* min() in place of max()
MinKey(m) == CHOOSE y \in DOMAIN m : \A z \in DOMAIN m : y <= z

\* Largest and second largest key of a non-empty map.
MaxKey(m) == CHOOSE y \in DOMAIN m : \A z \in DOMAIN m : z <= y

PrevKey(m) == MaxKey([y \in (DOMAIN m) \ {MaxKey(m)} |-> m[y]])

\* a fall of exactly 5% put in the last tier
croissance_tier_stricte(ca_num, ca_den, d_renta) ==
    IF ca_num > 10 * ca_den /\ d_renta > 200 THEN 15
    ELSE IF ca_num > 5 * ca_den /\ d_renta > 0 THEN 12
    ELSE IF ca_num > 0 THEN 9
    ELSE IF ca_num > 0 - 5 * ca_den THEN 6
    ELSE 3

\* The tier of the growth score once both growth figures are known:
\* ca_num / ca_den is croissance_ca in percent (ca_den > 0), d_renta is
\* croissance_renta in hundredths of a point.
croissance_tier(ca_num, ca_den, d_renta) ==
    IF ca_num > 10 * ca_den /\ d_renta > 200 THEN 15
    ELSE IF ca_num > 5 * ca_den /\ d_renta > 0 THEN 12
    ELSE IF ca_num > 0 THEN 9
    ELSE IF ca_num >= 0 - 5 * ca_den THEN 6
    ELSE 3

\* "Score neutre si pas d'historique"
croissance_neutre == 7

\* "Score moyen en cas d'erreur"
croissance_erreur == 5

\* TRUE when the try block of _score_croissance raises.
croissance_raises(sig, ratios) ==
    LET d  == MaxKey(sig)
        p  == PrevKey(sig)
        ca_actuel    == Get(sig[d].chiffre_affaires, Cell("float", 0))
        ca_precedent == Get(sig[p].chiffre_affaires, Cell("float", 0))
    IN  \/ ~IsNumber(ca_precedent)
        \/ (ca_precedent.val > 0 /\ ~IsNumber(ca_actuel))
        \/ d \notin DOMAIN ratios
        \/ p \notin DOMAIN ratios
        \/ ~ParsePct(Get(ratios[d].rentabilite_nette, Cell("pct", 0))).ok
        \/ ~ParsePct(Get(ratios[p].rentabilite_nette, Cell("pct", 0))).ok

\* The body of the try block once it is known not to raise.
croissance_calculee(sig, ratios) ==
    LET d  == MaxKey(sig)
        p  == PrevKey(sig)
        ca_actuel    == Get(sig[d].chiffre_affaires, Cell("float", 0)).val
        ca_precedent == Get(sig[p].chiffre_affaires, Cell("float", 0)).val
        renta_actuelle   == ParsePct(Get(ratios[d].rentabilite_nette, Cell("pct", 0))).v
        renta_precedente == ParsePct(Get(ratios[p].rentabilite_nette, Cell("pct", 0))).v
        d_renta == renta_actuelle - renta_precedente
    IN  IF ca_precedent > 0
        THEN croissance_tier((ca_actuel - ca_precedent) * 100, ca_precedent, d_renta)
        ELSE croissance_tier(0, 1, d_renta)

\* the except branch returning 0 like the other sub-scores
_score_croissance_erreur_zero(sig, ratios) ==
    IF Cardinality(DOMAIN sig) < 2 THEN croissance_neutre
    ELSE IF croissance_raises(sig, ratios) THEN 0
    ELSE croissance_calculee(sig, ratios)

\* the except branch returning the neutral score
_score_croissance_erreur_neutre(sig, ratios) ==
    IF Cardinality(DOMAIN sig) < 2 THEN croissance_neutre
    ELSE IF croissance_raises(sig, ratios) THEN croissance_neutre
    ELSE croissance_calculee(sig, ratios)

_score_croissance(sig, ratios) ==
    IF Cardinality(DOMAIN sig) < 2 THEN croissance_neutre
    ELSE IF croissance_raises(sig, ratios) THEN croissance_erreur
    ELSE croissance_calculee(sig, ratios)

----------------------------------------------------------------------------
(* scoring_cobac.py : conformity *)

_create_default_conformite ==
    [rentabilite |-> FALSE, endettement |-> FALSE, liquidite |-> FALSE,
     autonomie |-> FALSE, global |-> FALSE]

\* any() in place of all()
AnyOf(r, e, l, a) == r \/ e \/ l \/ a

\* all(conformite.values()) over the four criteria present at that point.
AllOf(r, e, l, a) == r /\ e /\ l /\ a

\* strict inequalities: a value on its threshold fails
_verifier_conformite_stricte(ratios, annee) ==
    IF annee \notin DOMAIN ratios THEN _create_default_conformite
    ELSE LET r == ParsePct(Get(ratios[annee].rentabilite_nette, Cell("pct", 0)))
             e == ParseDec(Get(ratios[annee].ratio_endettement, Cell("dec", 0)))
             l == ParseDec(Get(ratios[annee].ratio_liquidite, Cell("dec", 0)))
             a == ParsePct(Get(ratios[annee].ratio_autonomie, Cell("pct", 0)))
         IN  IF ~r.ok \/ ~e.ok \/ ~l.ok \/ ~a.ok THEN _create_default_conformite
             ELSE LET cr == r.v > seuils_alertes.rentabilite_min
                      ce == e.v < seuils_alertes.endettement_max
                      cl == l.v > seuils_alertes.liquidite_min
                      ca == a.v > seuils_alertes.autonomie_min
                  IN  [rentabilite |-> cr, endettement |-> ce, liquidite |-> cl,
                       autonomie |-> ca, global |-> AllOf(cr, ce, cl, ca)]

_verifier_conformite_cobac(ratios, annee) ==
    IF annee \notin DOMAIN ratios THEN _create_default_conformite
    ELSE LET r == ParsePct(Get(ratios[annee].rentabilite_nette, Cell("pct", 0)))
             e == ParseDec(Get(ratios[annee].ratio_endettement, Cell("dec", 0)))
             l == ParseDec(Get(ratios[annee].ratio_liquidite, Cell("dec", 0)))
             a == ParsePct(Get(ratios[annee].ratio_autonomie, Cell("pct", 0)))
         IN  IF ~r.ok \/ ~e.ok \/ ~l.ok \/ ~a.ok THEN _create_default_conformite
             ELSE LET cr == r.v >= seuils_alertes.rentabilite_min
                      ce == e.v <= seuils_alertes.endettement_max
                      cl == l.v >= seuils_alertes.liquidite_min
                      ca == a.v >= seuils_alertes.autonomie_min
                  IN  [rentabilite |-> cr, endettement |-> ce, liquidite |-> cl,
                       autonomie |-> ca, global |-> AllOf(cr, ce, cl, ca)]

----------------------------------------------------------------------------
(* scoring_cobac.py : calculer_score_global *)

_create_default_score ==
    [score_total |-> 0,
     categorie |-> "E",
     libelle_categorie |-> "Donnees insuffisantes",
     couleur_categorie |-> "gray",
     scores_detailles |-> [c \in Criteres |-> 0],
     conformite_cobac |-> _create_default_conformite]

libelle(categorie) ==
    CASE categorie = "A" -> "Excellent - Risque faible"
      [] categorie = "B" -> "Bon - Risque modere"
      [] categorie = "C" -> "Moyen - Risque acceptable"
      [] categorie = "D" -> "Mediocre - Risque eleve"
      [] categorie = "E" -> "Mauvais - Risque tres eleve"

couleur(categorie) ==
    CASE categorie = "A" -> "green"
      [] categorie = "B" -> "blue"
      [] categorie = "C" -> "orange"
      [] categorie = "D" -> "red"
      [] categorie = "E" -> "darkred"

RECURSIVE SumOver(_, _)
SumOver(f, S) ==
    IF S = {} THEN 0
    ELSE LET x == CHOOSE y \in S : TRUE IN f[x] + SumOver(f, S \ {x})

\* the sub-scores added without their weights
SommeSimple(scores) == SumOver([c \in Criteres |-> scores[c] * 100], Criteres)

\* sum(scores[critere] * poids ...), in hundredths of a point.
WeightedSum(scores) ==
    SumOver([c \in Criteres |-> scores[c] * poids_criteres[c]], Criteres)

\* max(0, min(100, score_total)), in hundredths of a point.
Clamp(score100) == Max2(0, Min2(10000, score100))

\* round(score_total) to whole points instead of one decimal
Round1_entier(score100, tie_up) == 10 * ((score100 + 50) \div 100)

\* round(score_total, 1) of a non-negative score in hundredths, in tenths.
\* The float sum sits just below or just above a value ending in 5
\* hundredths, so round() goes either way there: tie_up is the direction.
Round1(score100, tie_up) ==
    LET q == score100 \div 10
        r == score100 % 10
    IN  IF r < 5 THEN q
        ELSE IF r > 5 THEN q + 1
        ELSE IF tie_up THEN q + 1 ELSE q

calculer_score_global(sig, ratios, wc, tie_up) ==
    IF DOMAIN sig = {} \/ DOMAIN ratios = {} \/ DOMAIN wc = {}
    THEN _create_default_score
    ELSE LET dernier_annee == MaxKey(sig)
             scores == [c \in Criteres |->
                 CASE c = "rentabilite" -> _score_rentabilite(ratios, dernier_annee)
                   [] c = "structure"   -> _score_structure(ratios, dernier_annee)
                   [] c = "liquidite"   -> _score_liquidite(ratios, dernier_annee)
                   [] c = "tresorerie"  -> _score_tresorerie(wc, dernier_annee)
                   [] c = "croissance"  -> _score_croissance(sig, ratios)]
             score_total == Clamp(WeightedSum(scores))
             categorie == _determiner_categorie(score_total)
         IN  [score_total |-> Round1(score_total, tie_up),
              categorie |-> categorie,
              libelle_categorie |-> libelle(categorie),
              couleur_categorie |-> couleur(categorie),
              scores_detailles |-> scores,
              conformite_cobac |-> _verifier_conformite_cobac(ratios, dernier_annee)]

----------------------------------------------------------------------------
(* regulations_cobac.py : check_seuils_conformite.  No try block: a failed *)
(* conversion propagates to the caller.                                    *)

check_seuils_conformite(ratios) ==
    LET r == ParsePctNoComma(Get(ratios.rentabilite_nette, Cell("pct", 0)))
        e == ParseFloat(Get(ratios.ratio_endettement, Cell("float", 0)))
        l == ParseFloat(Get(ratios.ratio_liquidite, Cell("float", 0)))
        a == ParsePctNoComma(Get(ratios.ratio_autonomie, Cell("pct", 0)))
    IN  IF ~r.ok \/ ~e.ok \/ ~l.ok \/ ~a.ok
        THEN [status |-> "raised", value |-> _create_default_conformite]
        ELSE LET cr == r.v >= seuils_alertes.rentabilite_min
                 ce == e.v <= seuils_alertes.endettement_max
                 cl == l.v >= seuils_alertes.liquidite_min
                 ca == a.v >= seuils_alertes.autonomie_min
             IN  [status |-> "returned",
                  value |-> [rentabilite |-> cr, endettement |-> ce, liquidite |-> cl,
                             autonomie |-> ca, global |-> AllOf(cr, ce, cl, ca)]]

----------------------------------------------------------------------------
(* financial_processor.py : the normalized ledger *)

\* str.startswith on an account code held as a sequence of characters.
StartsWith(code, prefix) ==
    Len(prefix) <= Len(code) /\ SubSeq(code, 1, Len(prefix)) = prefix

EndsWith(code, ch) == Len(code) > 0 /\ code[Len(code)] = ch

\* word in code: the word occurs somewhere in the code.
Infix(word, code) ==
    \E i \in 1 .. (Len(code) - Len(word) + 1) :
        SubSeq(code, i, i + Len(word) - 1) = word

\* str.lower() on the letters the keywords are made of.
LowerChar(ch) ==
    CASE ch = "A" -> "a" [] ch = "C" -> "c" [] ch = "E" -> "e" [] ch = "F" -> "f"
      [] ch = "I" -> "i" [] ch = "M" -> "m" [] ch = "N" -> "n" [] ch = "S" -> "s"
      [] ch = "T" -> "t" [] ch = "V" -> "v" [] OTHER -> ch

Lower(code) == [i \in 1 .. Len(code) |-> LowerChar(code[i])]

encaissement == <<"e", "n", "c", "a", "i", "s", "s", "e", "m", "e", "n", "t">>

investissement == <<"i", "n", "v", "e", "s", "t", "i", "s", "s", "e", "m", "e", "n", "t">>

financement == <<"f", "i", "n", "a", "n", "c", "e", "m", "e", "n", "t">>

\* every source falls through to 'passif', the BILAN default
_determine_nature_sans_autre(account_code, source) ==
    IF source = "CPC"
    THEN IF StartsWith(account_code, <<"7">>) THEN "produit" ELSE "charge"
    ELSE IF \E c \in {"2", "3", "4", "5"} : StartsWith(account_code, <<c>>)
         THEN "actif" ELSE "passif"

_determine_nature(account_code, source) ==
    IF source = "CPC"
    THEN IF \E prefix \in {<<"7">>, <<"7", "0", "6">>, <<"7", "0", "8">>} :
                StartsWith(account_code, prefix)
         THEN "produit" ELSE "charge"
    ELSE IF source = "BILAN"
    THEN IF \E c \in {"2", "3", "4", "5"} : StartsWith(account_code, <<c>>)
         THEN "actif" ELSE "passif"
    ELSE IF source = "FLUX_TRESORERIE" /\ EndsWith(account_code, "1")
    THEN IF Infix(encaissement, Lower(account_code)) THEN "encaissement"
         ELSE IF Infix(investissement, Lower(account_code)) THEN "investissement"
         ELSE IF Infix(financement, Lower(account_code)) THEN "financement"
         ELSE "decaissement_exploitation"
    ELSE "autre"

\* The keywords a label contains, for str.contains(keyword, case=False).
LabelKeywords(account_label) ==
    CASE account_label = "Achats de marchandises"       -> {"achat"}
      [] account_label = "Dotations aux amortissements" -> {"amortissement"}
      [] account_label = "Reprises sur amortissements et provisions" -> {"amortissement"}
      [] account_label = "Ristournes sur achats" -> {"achat"}
      [] OTHER -> {}

Contains(account_label, keyword) == keyword \in LabelKeywords(account_label)

\* One row of the consolidated frame returned by _reshape_financial_data.
LedgerEntry(code, label, year, amount, source) ==
    [account_code |-> code, account_label |-> label, year |-> year,
     amount |-> amount, source |-> source,
     nature |-> _determine_nature(code, source)]

----------------------------------------------------------------------------
(* financial_processor.py : from the raw wide tables to the ledger.        *)
(* A raw table is [columns, rows]: columns is the sequence of headers and  *)
(* each row maps every header to a cell.  A cell of kind "nan" is an empty *)
(* Excel cell, "str" a text (the account code as a sequence of characters, *)
(* the label as a string), "float" a number, "txt" a text that is not a    *)
(* number.                                                                 *)

IsNaN(cell) == cell.kind = "nan"

Range(seq) == {seq[i] : i \in 1 .. Len(seq)}

\* df.dropna() over every column
dropna_toutes(raw) ==
    [raw EXCEPT !.rows = SelectSeq(raw.rows,
        LAMBDA row : \A col \in Range(raw.columns) : ~IsNaN(row[col]))]

\* df.dropna(subset=[df.columns[0]]): the first column, whatever its name.
dropna(raw) ==
    [raw EXCEPT !.rows = SelectSeq(raw.rows, LAMBDA row : ~IsNaN(row[raw.columns[1]]))]

\* pd.to_numeric(col) on a column header.
ColumnToNumeric(col) ==
    CASE col = "2021" -> ParseOk(2021)
      [] col = "2022" -> ParseOk(2022)
      [] col = "2023" -> ParseOk(2023)
      [] col = "2024" -> ParseOk(2024)
      [] OTHER -> ParseFail

year_columns(raw) ==
    SelectSeq(raw.columns,
        LAMBDA col : col \notin {"compte", "libelle"} /\ ColumnToNumeric(col).ok)

\* df.melt(id_vars, value_vars=year_columns): the rows once per year
\* column, year column by year column.
melt(raw, value_vars) ==
    LET n == Len(raw.rows)
    IN  IF n * Len(value_vars) = 0 THEN <<>>
        ELSE [k \in 1 .. (n * Len(value_vars)) |->
                LET row == raw.rows[((k - 1) % n) + 1]
                    col == value_vars[((k - 1) \div n) + 1]
                IN  [compte |-> row["compte"], libelle |-> row["libelle"],
                     year |-> col, amount |-> row[col]]]

\* astype(str) of an account-code cell: an empty cell becomes 'nan'.
CodeAsStr(cell) == IF IsNaN(cell) THEN <<"n", "a", "n">> ELSE cell.val

\* astype(str) of a label cell.
LabelAsStr(cell) == IF IsNaN(cell) THEN "nan" ELSE cell.val

\* pd.to_numeric(errors='coerce').fillna(0).astype(int) of a year header.
YearAsInt(col) == IF ColumnToNumeric(col).ok THEN ColumnToNumeric(col).v ELSE 0

\* pd.to_numeric(errors='coerce').fillna(0) of an amount cell.
AmountAsNumber(cell) == IF cell.kind = "float" THEN cell.val ELSE 0

Returned(rows) == [status |-> "returned", rows |-> rows]

Raised == [status |-> "raised", rows |-> <<>>]

_reshape_financial_data(raw, source) ==
    IF Len(raw.columns) = 0 THEN Raised      \* df.columns[0]: IndexError
    ELSE LET kept == dropna(raw)
         IN  IF ~({"compte", "libelle"} \subseteq Range(kept.columns)) THEN Returned(<<>>)
             ELSE IF year_columns(kept) = <<>> THEN Returned(<<>>)
             ELSE LET df_melted == melt(kept, year_columns(kept))
                  IN  Returned([k \in 1 .. Len(df_melted) |->
                          LedgerEntry(CodeAsStr(df_melted[k].compte),
                                      LabelAsStr(df_melted[k].libelle),
                                      YearAsInt(df_melted[k].year),
                                      AmountAsNumber(df_melted[k].amount),
                                      source)])

\* flux_file is <<>> for None and <<table>> for a file.  The two mandatory
\* statements are reshaped outside any try; the cash-flow one inside a
\* try whose except prints and goes on.  _clean_dataframe repeats the
\* conversions of _reshape_financial_data and leaves their results as
\* they are.
load_excel_data(bilan, cpc, flux) ==
    LET df_bilan == _reshape_financial_data(bilan, "BILAN")
        df_cpc   == _reshape_financial_data(cpc, "CPC")
        df_flux  == IF flux = <<>> THEN Returned(<<>>)
                    ELSE _reshape_financial_data(flux[1], "FLUX_TRESORERIE")
    IN  IF df_bilan.status = "raised" \/ df_cpc.status = "raised" THEN Raised
        ELSE Returned(df_bilan.rows \o df_cpc.rows \o
                      (IF df_flux.status = "raised" THEN <<>> ELSE df_flux.rows))

\* The consolidated frame as the set of its rows, each with its index.
Indexed(rows) ==
    {[index |-> i - 1,
      account_code |-> rows[i].account_code, account_label |-> rows[i].account_label,
      year |-> rows[i].year, amount |-> rows[i].amount,
      source |-> rows[i].source, nature |-> rows[i].nature] : i \in 1 .. Len(rows)}

----------------------------------------------------------------------------
(* financial_analyzer.py : aggregation per year *)

RECURSIVE SumAmount(_)
SumAmount(rows) ==
    IF rows = {} THEN 0
    ELSE LET e == CHOOSE x \in rows : TRUE IN e.amount + SumAmount(rows \ {e})

\* df['year'].unique()
YearsOf(d) == {e.year : e \in d}

cpc_data(d, year) == {e \in d : e.year = year /\ e.source = "CPC"}

bilan_data(d, year) == {e \in d : e.year = year /\ e.source = "BILAN"}

ventes(d, year) == SumAmount({e \in cpc_data(d, year) : e.nature = "produit"})

charges_total(d, year) == SumAmount({e \in cpc_data(d, year) : e.nature = "charge"})

CapitauxCodes == {<<"1", "0", "1">>, <<"1", "0", "6">>, <<"1", "0", "9">>}

actif_total(d, year) == SumAmount({e \in bilan_data(d, year) : e.nature = "actif"})

passif_total(d, year) == SumAmount({e \in bilan_data(d, year) : e.nature = "passif"})

\* capitaux_propres of calculate_financial_ratios (no nature filter).
capitaux_propres(d, year) ==
    SumAmount({e \in bilan_data(d, year) : e.account_code \in CapitauxCodes})

calculate_soldes_intermediaires(d) ==
    [year \in YearsOf(d) |->
        LET cpc == cpc_data(d, year)
            achats_marchandises == SumAmount({e \in cpc :
                e.account_code = <<"6", "0", "1">> \/ Contains(e.account_label, "achat")})
            marge_commerciale == ventes(d, year) - Abs(achats_marchandises)
            production == SumAmount({e \in cpc : Contains(e.account_label, "production")})
            consommations == SumAmount({e \in cpc : Contains(e.account_label, "consommation")})
            valeur_ajoutee == marge_commerciale + production - Abs(consommations)
            charges_personnel == SumAmount({e \in cpc :
                e.account_code \in {<<"6", "4", "1">>, <<"6", "4", "5">>}})
            ebe == valeur_ajoutee - Abs(charges_personnel)
            resultat_net == ventes(d, year) - Abs(charges_total(d, year))
        IN  [chiffre_affaires |-> Cell("float", ventes(d, year)),
             marge_commerciale |-> marge_commerciale,
             valeur_ajoutee |-> valeur_ajoutee,
             ebe |-> ebe,
             charges_personnel |-> Abs(charges_personnel),
             resultat_net |-> resultat_net]]

\* num / den rounded to the nearest integer (den > 0), as the format
\* specs '.1f' and '.2f' round; tie_up is the direction taken when the
\* quotient is exactly half way, where the float may sit on either side.
RoundDiv(num, den, tie_up) ==
    LET n == Abs(num)
        q == n \div den
        r == n % den
        m == IF 2 * r < den THEN q
             ELSE IF 2 * r > den THEN q + 1
             ELSE IF tie_up THEN q + 1 ELSE q
    IN  IF num < 0 THEN 0 - m ELSE m

\* The four ratios of one year as display strings, in hundredths.
calculate_financial_ratios(d, tie_up) ==
    [year \in YearsOf(d) |->
        LET resultat_net == ventes(d, year) - charges_total(d, year)
            v  == ventes(d, year)
            at == actif_total(d, year)
            pt == passif_total(d, year)
            cp == capitaux_propres(d, year)
            rentabilite == IF v > 0 THEN 10 * RoundDiv(resultat_net * 1000, v, tie_up) ELSE 0
            endettement == IF cp > 0 THEN RoundDiv(pt * 100, cp, tie_up) ELSE 0
            liquidite   == IF pt > 0 THEN RoundDiv(at * 100, pt, tie_up) ELSE 0
            autonomie   == IF at > 0 THEN 10 * RoundDiv(cp * 1000, at, tie_up) ELSE 0
        IN  [rentabilite_net |-> Cell("pct", rentabilite),
             rentabilite_nette |-> Missing,
             ratio_endettement |-> Cell("dec", endettement),
             ratio_liquidite |-> Cell("dec", liquidite),
             ratio_autonomie |-> Cell("pct", autonomie),
             resultat_net |-> Cell("float", resultat_net)]]

\* tn computed the wrong way round
tresorerie_nette_inverse(fr, bfr) == bfr - fr

\* tn = fr - bfr
tresorerie_nette(fr, bfr) == fr - bfr

calculate_working_capital_indicators(d) ==
    [year \in YearsOf(d) |->
        LET cpc   == cpc_data(d, year)
            bilan == bilan_data(d, year)
            resultat_net == ventes(d, year) - charges_total(d, year)
            dotations_amortissement == SumAmount({e \in cpc :
                e.account_code = <<"6", "8", "1">> \/ Contains(e.account_label, "amortissement")})
            caf == resultat_net + Abs(dotations_amortissement)
            stocks == SumAmount({e \in bilan :
                StartsWith(e.account_code, <<"3">>) /\ e.nature = "actif"})
            clients == SumAmount({e \in bilan :
                e.account_code = <<"4", "1", "1">> /\ e.nature = "actif"})
            actif_circulant == stocks + clients
            fournisseurs == SumAmount({e \in bilan :
                e.account_code = <<"4", "0", "1">> /\ e.nature = "passif"})
            dettes_fiscales == SumAmount({e \in bilan :
                e.account_code = <<"4", "4", "1">> /\ e.nature = "passif"})
            dettes_sociales == SumAmount({e \in bilan :
                e.account_code = <<"4", "3", "1">> /\ e.nature = "passif"})
            passif_circulant == fournisseurs + dettes_fiscales + dettes_sociales
            bfr == actif_circulant - passif_circulant
            capitaux == SumAmount({e \in bilan :
                e.account_code \in CapitauxCodes /\ e.nature = "passif"})
            dettes_long_terme == SumAmount({e \in bilan :
                /\ e.account_code \notin (CapitauxCodes \cup
                      {<<"4", "0", "1">>, <<"4", "2", "1">>, <<"4", "3", "1">>, <<"4", "4", "1">>})
                /\ e.nature = "passif"})
            capitaux_permanents == capitaux + dettes_long_terme
            actif_immobilise == SumAmount({e \in bilan :
                StartsWith(e.account_code, <<"2">>) /\ e.nature = "actif"})
            fr == capitaux_permanents - actif_immobilise
            tn == tresorerie_nette(fr, bfr)
            tresorerie_active == SumAmount({e \in bilan :
                e.account_code \in {<<"5", "1", "1">>, <<"5", "1", "2">>} /\ e.nature = "actif"})
            tresorerie_passive == SumAmount({e \in bilan :
                StartsWith(e.account_code, <<"1", "6">>) /\ e.nature = "passif"})
            tn_alternative == tresorerie_active - tresorerie_passive
        IN  [caf |-> caf, bfr |-> bfr, fr |-> fr, tn |-> tn,
             tn_alternative |-> tn_alternative,
             actif_circulant |-> actif_circulant,
             passif_circulant |-> passif_circulant,
             capitaux_permanents |-> capitaux_permanents,
             actif_immobilise |-> actif_immobilise]]

----------------------------------------------------------------------------
(* Inputs *)

Years == {2022, 2023}

\* Chart-of-accounts rows of the statements: code, label, statement.
Accounts ==
    { <<<<"1", "0", "1">>, "Capital social", "BILAN">>,
      <<<<"1", "6", "1">>, "Emprunts", "BILAN">>,
      <<<<"2", "1", "1">>, "Terrains", "BILAN">>,
      <<<<"3", "1", "1">>, "Marchandises", "BILAN">>,
      <<<<"4", "1", "1">>, "Clients", "BILAN">>,
      <<<<"4", "0", "1">>, "Fournisseurs", "BILAN">>,
      <<<<"5", "1", "2">>, "Banques", "BILAN">>,
      <<<<"7", "0", "1">>, "Ventes de marchandises", "CPC">>,
      <<<<"6", "0", "1">>, "Achats de marchandises", "CPC">>,
      <<<<"6", "8", "1">>, "Dotations aux amortissements", "CPC">> }

Amounts == {0 - 1} \cup (0 .. MaxAmount)

\* Ratio dictionaries of one year handed to the scoring engine.
RatiosRec(rn, e, l, a) ==
    [rentabilite_net |-> Missing, rentabilite_nette |-> rn, ratio_endettement |-> e,
     ratio_liquidite |-> l, ratio_autonomie |-> a, resultat_net |-> Missing]

RatiosPrev ==
    { RatiosRec(Cell("pct", 3330), Cell("dec", 40), Cell("dec", 200), Cell("pct", 5500)),
      RatiosRec(Cell("pct", 300), Cell("dec", 200), Cell("dec", 100), Cell("pct", 2000)),
      RatiosRec(Cell("txt", 0), Cell("dec", 120), Cell("dec", 150), Cell("pct", 3500)),
      RatiosRec(Missing, Missing, Missing, Missing) }

RatiosLast ==
    RatiosPrev \cup
    { RatiosRec(Cell("pct", 290), Cell("dec", 200), Cell("dec", 100), Cell("pct", 2000)),
      RatiosRec(Cell("pct", 300), Cell("dec", 201), Cell("dec", 100), Cell("pct", 2000)),
      RatiosRec(Cell("pct", 300), Cell("dec", 200), Cell("dec", 99), Cell("pct", 2000)),
      RatiosRec(Cell("pct", 300), Cell("dec", 200), Cell("dec", 100), Cell("pct", 1990)),
      RatiosRec(Cell("pct", 1200), Cell("txt", 0), Cell("dec", 125), Cell("pct", 4200)),
      RatiosRec(Cell("pct", 700), Cell("dec", 80), Cell("txt", 0), Cell("pct", 3000)),
      RatiosRec(Cell("pct", 0 - 500), Cell("dec", 250), Cell("dec", 85), Cell("txt", 0)),
      RatiosRec(Cell("pctc", 1550), Cell("decc", 45), Cell("decc", 210), Cell("pct", 5000)),
      RatiosRec(Cell("pct", 500), Cell("float", 100), Cell("dec", 120), Cell("pct", 2500)) }

SigRec(ca) == [chiffre_affaires |-> ca]

SigPrev == {SigRec(Cell("float", 100)), SigRec(Cell("float", 0)), SigRec(Cell("txt", 0))}

SigLast ==
    {SigRec(Cell("float", v)) : v \in {90, 95, 103, 106, 112}} \cup {SigRec(Cell("txt", 0))}

WcRec(tn, caf, bfr) == [tn |-> tn, caf |-> caf, bfr |-> bfr]

WcPrev == {WcRec(Cell("float", 1), Cell("float", 1), Cell("float", 0))}

WcLast ==
    { WcRec(Cell("float", 5), Cell("float", 10), Cell("float", 3)),
      WcRec(Cell("float", 5), Cell("float", 2), Cell("float", 0 - 3)),
      WcRec(Cell("float", 5), Cell("float", 0 - 1), Cell("txt", 0)),
      WcRec(Cell("float", 0), Cell("float", 0), Cell("float", 1)),
      WcRec(Cell("float", 0 - 1), Cell("float", 0 - 2), Cell("float", 0)),
      WcRec(Cell("txt", 0), Cell("float", 1), Cell("float", 1)),
      WcRec(Cell("float", 5), Cell("float", 10), Cell("txt", 0)),
      WcRec(Missing, Missing, Missing) }

\* Every map from a set of years to records: 2022 from prev, 2023 from last.
MapsOver(prev, last) ==
    UNION { {m \in [ks -> prev \cup last] :
                \A y \in ks : m[y] \in (IF y = 2023 THEN last ELSE prev)} :
            ks \in SUBSET Years }

\* A year before those of Years, and the records it may hold.
OlderYear == 2021

SigOlder == {SigRec(Cell("float", 80)), SigRec(Cell("txt", 0))}

RatiosOlder ==
    { RatiosRec(Cell("pct", 1600), Cell("dec", 30), Cell("dec", 250), Cell("pct", 6000)),
      RatiosRec(Cell("txt", 0), Cell("dec", 300), Cell("dec", 50), Cell("pct", 1000)) }

WcOlder ==
    { WcRec(Cell("float", 7), Cell("float", 9), Cell("float", 2)),
      WcRec(Cell("float", 0 - 4), Cell("float", 0 - 6), Cell("txt", 0)) }

\* The map m with the older year added.
WithOlder(m, rec) ==
    [y \in (DOMAIN m) \cup {OlderYear} |-> IF y = OlderYear THEN rec ELSE m[y]]

\* Two-year histories to which the older year is added.
HistorySig ==
    {m \in MapsOver(SigPrev, SigLast) :
        DOMAIN m = Years /\ m[2023].chiffre_affaires.val \in {0, 95, 112}}

HistoryRatios ==
    {m \in MapsOver(RatiosPrev, RatiosLast) :
        /\ DOMAIN m = Years
        /\ m[2022].rentabilite_nette.kind # "missing"
        /\ m[2023].rentabilite_nette.val \in {3330, 300}}

HistoryWc == {m \in MapsOver(WcPrev, WcLast) : DOMAIN m = Years /\ m[2023].caf.val = 10}

ScoreArgsOlder ==
    { [sig |-> WithOlder(sig, s), ratios |-> WithOlder(ratios, r), wc |-> WithOlder(wc, w)] :
        sig \in HistorySig, ratios \in HistoryRatios, wc \in HistoryWc,
        s \in SigOlder, r \in RatiosOlder, w \in WcOlder }

ScoreArgs ==
    [sig : MapsOver(SigPrev, SigLast),
     ratios : MapsOver(RatiosPrev, RatiosLast),
     wc : MapsOver(WcPrev, WcLast)]
    \cup ScoreArgsOlder

\* Scores, in hundredths of a point, handed to _determiner_categorie.
CatScores == {100 * p + o : p \in 0 .. MaxScore, o \in {0 - 1, 0}}

CategoriesIn ==
    {"A", "B", "C", "D", "E", "Z",
     "standard", "suivi_special", "douteux", "contentieux", "reference"}

Montants == (0 .. MaxMontant) \cup {100000}

----------------------------------------------------------------------------
(* Values of the variables a run does not use *)

NoMap == [y \in {} |-> 0]

NoScoreArgs == [sig |-> NoMap, ratios |-> NoMap, wc |-> NoMap]

NoScore == [_create_default_score EXCEPT !.categorie = "-", !.libelle_categorie = "-"]

NoConformite == [status |-> "none", value |-> _create_default_conformite]

NoProvision ==
    [montant_pret |-> 0, categorie |-> "-", taux_provision |-> 0,
     provision_requise |-> 0, montant_net |-> 0, raised |-> FALSE]

NoProvArgs == [montant_pret |-> 0, categorie |-> "-"]

IdleAnalysis ==
    /\ df = {}
    /\ sig_results = NoMap
    /\ ratios_results = NoMap
    /\ working_capital_results = NoMap

IdleScore ==
    /\ score_args = NoScoreArgs
    /\ score_cobac = NoScore
    /\ conformite = NoConformite

IdleCat ==
    /\ cat_args = <<0, 0>>
    /\ cat_res = <<"-", "-">>

IdleProv ==
    /\ prov_args = NoProvArgs
    /\ provisionnement = NoProvision
    /\ provisionnement_double = NoProvision

NoTable == [columns |-> <<>>, rows |-> <<>>]

NoReshapeArgs == [raw |-> NoTable, source |-> "-"]

NoReshape == [status |-> "none", rows |-> <<>>]

NoNatureArgs == [account_code |-> <<>>, source |-> "-"]

IdleLoad ==
    /\ bilan_file = NoTable
    /\ cpc_file = NoTable
    /\ flux_file = <<>>

IdleReshape ==
    /\ reshape_args = NoReshapeArgs
    /\ reshape_res = NoReshape

IdleNature ==
    /\ nature_args = NoNatureArgs
    /\ nature_res = "-"

IdleProcessor == IdleLoad /\ IdleReshape /\ IdleNature

analysis_vars == <<df, sig_results, ratios_results, working_capital_results>>

score_vars == <<score_args, score_cobac, conformite>>

cat_vars == <<cat_args, cat_res>>

prov_vars == <<prov_args, provisionnement, provisionnement_double>>

load_vars == <<bilan_file, cpc_file, flux_file>>

reshape_vars == <<reshape_args, reshape_res>>

nature_vars == <<nature_args, nature_res>>

processor_vars == <<load_vars, reshape_vars, nature_vars>>

----------------------------------------------------------------------------
(* The analysis run of app.py: load the ledger, then the three aggregations *)

Init ==
    /\ pc = "load"
    /\ IdleAnalysis /\ IdleScore /\ IdleCat /\ IdleProv /\ IdleProcessor

\* One more row of the consolidated frame built by load_excel_data.
LoadEntry ==
    /\ pc = "load"
    /\ Cardinality(df) < MaxEntries
    /\ \E acc \in Accounts, year \in Years, amount \in Amounts :
          df' = df \cup {LedgerEntry(acc[1], acc[2], year, amount, acc[3])}
    /\ UNCHANGED <<pc, sig_results, ratios_results, working_capital_results>>
    /\ UNCHANGED <<score_vars, cat_vars, prov_vars, processor_vars>>

CalculateSIG ==
    /\ pc = "load"
    /\ sig_results' = calculate_soldes_intermediaires(df)
    /\ pc' = "sig"
    /\ UNCHANGED <<df, ratios_results, working_capital_results>>
    /\ UNCHANGED <<score_vars, cat_vars, prov_vars, processor_vars>>

CalculateRatios ==
    /\ pc = "sig"
    /\ \E tie_up \in BOOLEAN : ratios_results' = calculate_financial_ratios(df, tie_up)
    /\ pc' = "ratios"
    /\ UNCHANGED <<df, sig_results, working_capital_results>>
    /\ UNCHANGED <<score_vars, cat_vars, prov_vars, processor_vars>>

CalculateWorkingCapital ==
    /\ pc = "ratios"
    /\ working_capital_results' = calculate_working_capital_indicators(df)
    /\ pc' = "wc"
    /\ UNCHANGED <<df, sig_results, ratios_results>>
    /\ UNCHANGED <<score_vars, cat_vars, prov_vars, processor_vars>>

Next == LoadEntry \/ CalculateSIG \/ CalculateRatios \/ CalculateWorkingCapital

Spec == Init /\ [][Next]_vars

----------------------------------------------------------------------------
(* The scoring engine on arbitrary result maps *)

InitScore ==
    /\ pc = "score_call"
    /\ score_args \in ScoreArgs
    /\ score_cobac = NoScore
    /\ conformite = NoConformite
    /\ IdleAnalysis /\ IdleCat /\ IdleProv /\ IdleProcessor

ScoreGlobal ==
    /\ pc = "score_call"
    /\ \E tie_up \in BOOLEAN :
          score_cobac' = calculer_score_global(score_args.sig, score_args.ratios,
                                               score_args.wc, tie_up)
    /\ pc' = "score_done"
    /\ UNCHANGED <<score_args, conformite>>
    /\ UNCHANGED <<analysis_vars, cat_vars, prov_vars, processor_vars>>

\* check_seuils_conformite on the ratios of one year.
CheckSeuils ==
    /\ pc = "score_call"
    /\ \E year \in DOMAIN score_args.ratios :
          conformite' = check_seuils_conformite(score_args.ratios[year])
    /\ pc' = "conf_done"
    /\ UNCHANGED <<score_args, score_cobac>>
    /\ UNCHANGED <<analysis_vars, cat_vars, prov_vars, processor_vars>>

NextScore == ScoreGlobal \/ CheckSeuils

SpecScore == InitScore /\ [][NextScore]_vars

----------------------------------------------------------------------------
(* _determiner_categorie on two scores *)

InitCat ==
    /\ pc = "cat_call"
    /\ cat_args \in CatScores \X CatScores
    /\ cat_res = <<"-", "-">>
    /\ IdleAnalysis /\ IdleScore /\ IdleProv /\ IdleProcessor

DetermineFirst ==
    /\ pc = "cat_call"
    /\ cat_res' = [cat_res EXCEPT ![1] = _determiner_categorie(cat_args[1])]
    /\ pc' = "cat_first"
    /\ UNCHANGED <<cat_args, analysis_vars, score_vars, prov_vars, processor_vars>>

DetermineSecond ==
    /\ pc = "cat_first"
    /\ cat_res' = [cat_res EXCEPT ![2] = _determiner_categorie(cat_args[2])]
    /\ pc' = "cat_done"
    /\ UNCHANGED <<cat_args, analysis_vars, score_vars, prov_vars, processor_vars>>

NextCat == DetermineFirst \/ DetermineSecond

SpecCat == InitCat /\ [][NextCat]_vars

----------------------------------------------------------------------------
(* calculer_provisionnement on a loan amount and on its double *)

InitProv ==
    /\ pc = "prov_call"
    /\ prov_args \in [montant_pret : Montants, categorie : CategoriesIn]
    /\ provisionnement = NoProvision
    /\ provisionnement_double = NoProvision
    /\ IdleAnalysis /\ IdleScore /\ IdleCat /\ IdleProcessor

Provision ==
    /\ pc = "prov_call"
    /\ provisionnement' = calculer_provisionnement(prov_args.montant_pret, prov_args.categorie)
    /\ pc' = "prov_first"
    /\ UNCHANGED <<prov_args, provisionnement_double>>
    /\ UNCHANGED <<analysis_vars, score_vars, cat_vars, processor_vars>>

ProvisionDouble ==
    /\ pc = "prov_first"
    /\ provisionnement_double' =
          calculer_provisionnement(2 * prov_args.montant_pret, prov_args.categorie)
    /\ pc' = "prov_done"
    /\ UNCHANGED <<prov_args, provisionnement>>
    /\ UNCHANGED <<analysis_vars, score_vars, cat_vars, processor_vars>>

NextProv == Provision \/ ProvisionDouble

SpecProv == InitProv /\ [][NextProv]_vars

----------------------------------------------------------------------------
(* _determine_nature on one account code and one source *)

NatureCodes ==
    { <<"7", "0", "1">>, <<"7", "0", "6">>, <<"6", "0", "1">>, <<"8", "0", "1">>,
      <<"1", "0", "1">>, <<"2", "1", "1">>, <<"4", "1", "1">>, <<"5", "1", "2">>,
      <<"9", "0", "1">>, <<>>, <<" ">>, <<"n", "a", "n">>,
      <<"7", "0", "1", "1">>, <<"6", "0", "1", "2">>,
      encaissement \o <<"1">>, encaissement \o <<"2">>,
      <<"E", "N", "C">> \o SubSeq(encaissement, 4, 12) \o <<"1">>,
      <<"d", "e", "c">> \o SubSeq(encaissement, 4, 12) \o <<"1">>,
      investissement \o <<"1">>, financement \o <<"1">> }

\* 'ANNEXE' stands for a source that is none of the three statements.
Sources == {"BILAN", "CPC", "FLUX_TRESORERIE", "ANNEXE"}

InitNature ==
    /\ pc = "nature_call"
    /\ nature_args \in [account_code : NatureCodes, source : Sources]
    /\ nature_res = "-"
    /\ IdleAnalysis /\ IdleScore /\ IdleCat /\ IdleProv /\ IdleLoad /\ IdleReshape

DetermineNature ==
    /\ pc = "nature_call"
    /\ nature_res' = _determine_nature(nature_args.account_code, nature_args.source)
    /\ pc' = "nature_done"
    /\ UNCHANGED <<nature_args, load_vars, reshape_vars>>
    /\ UNCHANGED <<analysis_vars, score_vars, cat_vars, prov_vars>>

NextNature == DetermineNature

SpecNature == InitNature /\ [][NextNature]_vars

----------------------------------------------------------------------------
(* _reshape_financial_data on one raw table *)

Str(val) == Cell("str", val)

Num(val) == Cell("float", val)

\* an empty amount cell, an empty account-code cell, an empty label cell
NaN == Cell("nan", 0)

NaNCode == Cell("nan", <<>>)

NaNLabel == Cell("nan", "")

\* an amount cell holding a text that is not a number
Texte == Cell("txt", 0)

\* The row of a table with these columns: account code, label and the
\* amounts of the year columns; any other column holds a remark.
RowOver(columns, code, label, amounts) ==
    [col \in Range(columns) |->
        CASE col = "compte" -> code
          [] col = "libelle" -> label
          [] col \in DOMAIN amounts -> amounts[col]
          [] OTHER -> Str("remarque")]

Amounts3(a, b, c) == ("2021" :> a) @@ ("2022" :> b) @@ ("2023" :> c)

\* Column layouts: the documented one, the account code in second place,
\* a year column in first place, no label column, no year column, an empty
\* sheet, and the account column under another header.
Layouts ==
    { <<"compte", "libelle", "2021", "2022", "2023">>,
      <<"libelle", "compte", "2021", "2022", "2023">>,
      <<"2021", "compte", "libelle", "2022", "2023">>,
      <<"compte", "2021", "2022", "2023">>,
      <<"compte", "libelle", "note">>,
      <<>>,
      <<"code", "libelle", "2021", "2022", "2023">> }

\* largest number of rows of a raw table
MaxRows == 2

RowsOver(columns) ==
    { RowOver(columns, Str(<<"7", "0", "1">>), Str("Ventes de marchandises"),
              Amounts3(Num(1), Num(2), Num(3))),
      RowOver(columns, Str(<<"6", "0", "1">>), Str("Achats de marchandises"),
              Amounts3(Num(2), NaN, Texte)),
      RowOver(columns, NaNCode, Str("Total"), Amounts3(Num(3), Num(3), Num(3))),
      RowOver(columns, Str(<<" ">>), NaNLabel, Amounts3(Num(1), Num(1), NaN)),
      RowOver(columns, Str(<<"7", "0", "1">>), Str("Ventes de marchandises"),
              Amounts3(NaN, Num(1), Num(2))),
      RowOver(columns, Str(<<"2", "1", "1">>), Str("Terrains"),
              Amounts3(Num(0 - 1), Texte, Num(0))) }

RawTables ==
    UNION { IF columns = <<>> THEN {NoTable}
            ELSE UNION { {[columns |-> columns, rows |-> rows] :
                              rows \in [1 .. n -> RowsOver(columns)]} :
                         n \in 0 .. MaxRows } :
            columns \in Layouts }

InitReshape ==
    /\ pc = "reshape_call"
    /\ reshape_args \in [raw : RawTables, source : {"BILAN", "CPC", "FLUX_TRESORERIE"}]
    /\ reshape_res = NoReshape
    /\ IdleAnalysis /\ IdleScore /\ IdleCat /\ IdleProv /\ IdleLoad /\ IdleNature

Reshape ==
    /\ pc = "reshape_call"
    /\ reshape_res' = _reshape_financial_data(reshape_args.raw, reshape_args.source)
    /\ pc' = "reshape_done"
    /\ UNCHANGED <<reshape_args, load_vars, nature_vars>>
    /\ UNCHANGED <<analysis_vars, score_vars, cat_vars, prov_vars>>

NextReshape == Reshape

SpecReshape == InitReshape /\ [][NextReshape]_vars

----------------------------------------------------------------------------
(* The analysis run of app.py from the uploaded files: load_excel_data,   *)
(* the three aggregations, then calculer_score_global                     *)

StdColumns == <<"compte", "libelle", "2022", "2023">>

Amounts2(a, b) == ("2022" :> Num(a)) @@ ("2023" :> Num(b))

Table(columns, entries) ==
    [columns |-> columns,
     rows |-> [i \in 1 .. Len(entries) |->
                  RowOver(columns, Str(entries[i][1]), Str(entries[i][2]), entries[i][3])]]

BilanRows ==
    << <<<<"1", "0", "1">>, "Capital social", Amounts2(2, 2)>>,
       <<<<"1", "6", "1">>, "Emprunts", Amounts2(1, 1)>>,
       <<<<"2", "1", "1">>, "Terrains", Amounts2(2, 2)>>,
       <<<<"5", "1", "2">>, "Banques", Amounts2(1, 1)>> >>

\* The operating accounts of the balance sheet: stocks, trade receivables,
\* trade, tax and social payables.
OperatingRows ==
    << <<<<"3", "1", "1">>, "Marchandises", Amounts2(3, 3)>>,
       <<<<"4", "1", "1">>, "Clients", Amounts2(2, 2)>>,
       <<<<"4", "0", "1">>, "Fournisseurs", Amounts2(2, 1)>>,
       <<<<"4", "4", "1">>, "Etat, impots et taxes", Amounts2(1, 1)>>,
       <<<<"4", "3", "1">>, "Securite sociale", Amounts2(1, 0)>> >>

\* A balance sheet, the same with an off-balance-sheet memo account, one
\* without any year column, an empty sheet, one without equity accounts,
\* one without asset accounts, and one with the operating accounts.
BilanFiles ==
    { Table(StdColumns, BilanRows),
      Table(StdColumns, Append(BilanRows,
          <<<<"9", "0", "1">>, "Engagements hors bilan", Amounts2(1, 1)>>)),
      Table(<<"compte", "libelle", "note">>, BilanRows),
      NoTable,
      Table(StdColumns, SubSeq(BilanRows, 2, 3)),
      Table(StdColumns, SubSeq(BilanRows, 1, 2)),
      Table(StdColumns, BilanRows \o OperatingRows) }

CpcRows ==
    << <<<<"7", "0", "1">>, "Ventes de marchandises", Amounts2(100, 110)>>,
       <<<<"6", "0", "1">>, "Achats de marchandises", Amounts2(60, 70)>>,
       <<<<"6", "8", "1">>, "Dotations aux amortissements", Amounts2(10, 10)>> >>

\* The documented income statement: product 701 = 600000 and charge
\* 601 = 400000 for 2023.
CpcScenario ==
    Table(<<"compte", "libelle", "2023">>,
        << <<<<"7", "0", "1">>, "Ventes de marchandises", "2023" :> Num(600000)>>,
           <<<<"6", "0", "1">>, "Achats de marchandises", "2023" :> Num(400000)>> >>)

\* Income statements: the documented one; a two-year one; the same with
\* product accounts whose labels hold 'amortissement' and 'achat'; the
\* same with a transition account of class 8; one without the label column;
\* one without any product account; one with a provision charge.
CpcFiles ==
    { CpcScenario,
      Table(StdColumns, CpcRows),
      Table(StdColumns, CpcRows \o
          << <<<<"7", "9", "8">>, "Reprises sur amortissements et provisions", Amounts2(5, 5)>>,
             <<<<"7", "7", "1">>, "Ristournes sur achats", Amounts2(3, 3)>> >>),
      Table(StdColumns, Append(CpcRows,
          <<<<"8", "0", "1">>, "Compte de liaison", Amounts2(4, 4)>>)),
      Table(<<"compte", "2022", "2023">>, CpcRows),
      Table(StdColumns, SubSeq(CpcRows, 2, 3)),
      Table(StdColumns, Append(CpcRows,
          <<<<"6", "9", "1">>, "Dotations aux provisions", Amounts2(4, 4)>>)) }

FluxRows(amounts) ==
    << <<<<"7", "0", "1", "1">>, "Encaissements clients", amounts>>,
       <<<<"6", "0", "1", "2">>, "Decaissements fournisseurs", amounts>> >>

\* No cash-flow file, one for the years of the other statements, one for
\* a later year, and an empty sheet.
FluxFiles ==
    { <<>>,
      <<Table(StdColumns, FluxRows(Amounts2(9, 4)))>>,
      <<Table(<<"compte", "libelle", "2024">>, FluxRows("2024" :> Num(9)))>>,
      <<NoTable>> }

InitApp ==
    /\ pc = "upload"
    /\ bilan_file \in BilanFiles
    /\ cpc_file \in CpcFiles
    /\ flux_file \in FluxFiles
    /\ IdleAnalysis /\ IdleScore /\ IdleCat /\ IdleProv /\ IdleReshape /\ IdleNature

\* app.py 346-367: a load error and an empty frame both end the run.
LoadExcelData ==
    /\ pc = "upload"
    /\ LET loaded == load_excel_data(bilan_file, cpc_file, flux_file)
       IN  IF loaded.status = "raised" THEN pc' = "load_raised" /\ df' = df
           ELSE IF loaded.rows = <<>> THEN pc' = "load_empty" /\ df' = df
           ELSE pc' = "load" /\ df' = Indexed(loaded.rows)
    /\ UNCHANGED <<sig_results, ratios_results, working_capital_results>>
    /\ UNCHANGED <<score_vars, cat_vars, prov_vars, processor_vars>>

\* The working-capital indicators are floats.
AsCells(wc) ==
    [year \in DOMAIN wc |->
        [tn |-> Cell("float", wc[year].tn), caf |-> Cell("float", wc[year].caf),
         bfr |-> Cell("float", wc[year].bfr)]]

\* app.py 394-412: the three maps have the years of the frame as keys, so
\* none is empty and none is replaced by its default before scoring.
ScoreCobac ==
    /\ pc = "wc"
    /\ df # {}
    /\ \E tie_up \in BOOLEAN :
          score_cobac' = calculer_score_global(sig_results, ratios_results,
                                               AsCells(working_capital_results), tie_up)
    /\ pc' = "scored"
    /\ UNCHANGED <<score_args, conformite>>
    /\ UNCHANGED <<analysis_vars, cat_vars, prov_vars, processor_vars>>

NextApp ==
    \/ LoadExcelData
    \/ CalculateSIG
    \/ CalculateRatios
    \/ CalculateWorkingCapital
    \/ ScoreCobac

SpecApp == InitApp /\ [][NextApp]_vars

----------------------------------------------------------------------------
(* The scoring engine on values placed on and around every tier boundary  *)

\* largest magnitude of tn and caf tried; bfr goes one further
MaxTreso == 2

\* ratio_endettement, in hundredths: each threshold and the value after it.
DebtGrid == {0, 40, 50, 51, 100, 101, 150, 151, 200, 201, 300}

\* ratio_autonomie, in hundredths of a percent: each threshold and the
\* value before it.
AutonomyGrid == {0, 1990, 2000, 2990, 3000, 3990, 4000, 4990, 5000, 5500, 10000}

\* rentabilite_nette, in hundredths of a percent.
MarginGrid ==
    {0 - 500, 0 - 10, 0, 290, 300, 490, 500, 690, 700, 990, 1000, 1490, 1500, 3330}

\* chiffre_affaires of the latest year against 100 the year before.
RevenueGrid == {80, 94, 95, 96, 100, 101, 105, 106, 110, 111, 120}

\* rentabilite_nette of the latest year against 5% the year before.
MarginAfter == {300, 500, 510, 700, 710, 800}

OneYear(rec) == 2023 :> rec

TwoYears(prev, last) == (2022 :> prev) @@ (2023 :> last)

RatiosSound == RatiosRec(Cell("pct", 500), Cell("dec", 130), Cell("dec", 130), Cell("pct", 3500))

WcSound == WcRec(Cell("float", 1), Cell("float", 1), Cell("float", 0))

StructureArgs ==
    { [sig |-> OneYear(SigRec(Cell("float", 100))),
       ratios |-> OneYear([RatiosSound EXCEPT !.ratio_endettement = Cell("dec", e),
                                              !.ratio_autonomie = Cell("pct", a)]),
       wc |-> OneYear(WcSound)] : e \in DebtGrid, a \in AutonomyGrid }

RentabiliteArgs ==
    { [sig |-> TwoYears(SigRec(Cell("float", 100)), SigRec(Cell("float", 100))),
       ratios |-> TwoYears([RatiosSound EXCEPT !.rentabilite_nette = Cell("pct", 1200)],
                           [RatiosSound EXCEPT !.rentabilite_nette = Cell("pct", m)]),
       wc |-> TwoYears(WcSound, WcSound)] : m \in MarginGrid }

TresorerieArgs ==
    { [sig |-> OneYear(SigRec(Cell("float", 100))),
       ratios |-> OneYear(RatiosSound),
       wc |-> OneYear(WcRec(Cell("float", tn), Cell("float", caf), Cell("float", bfr)))] :
        tn \in (0 - MaxTreso) .. MaxTreso, caf \in (0 - MaxTreso) .. MaxTreso,
        bfr \in (0 - MaxTreso - 1) .. (MaxTreso + 1) }

CroissanceArgs ==
    { [sig |-> TwoYears(SigRec(Cell("float", before)), SigRec(Cell("float", ca))),
       ratios |-> TwoYears(RatiosSound,
                           [RatiosSound EXCEPT !.rentabilite_nette = Cell("pct", m)]),
       wc |-> TwoYears(WcSound, WcSound)] :
        before \in {0, 100}, ca \in RevenueGrid, m \in MarginAfter }

TierArgs == StructureArgs \cup RentabiliteArgs \cup TresorerieArgs \cup CroissanceArgs

InitTiers ==
    /\ pc = "score_call"
    /\ score_args \in TierArgs
    /\ score_cobac = NoScore
    /\ conformite = NoConformite
    /\ IdleAnalysis /\ IdleCat /\ IdleProv /\ IdleProcessor

SpecTiers == InitTiers /\ [][NextScore]_vars

----------------------------------------------------------------------------
(* Properties *)

\* C1: for every ledger and every year present in it, the working-capital
\* result has tn = fr - bfr exactly.
C1_TnIsFrMinusBfr ==
    pc = "wc" =>
        /\ DOMAIN working_capital_results = YearsOf(df)
        /\ \A y \in DOMAIN working_capital_results :
              working_capital_results[y].tn =
                  working_capital_results[y].fr - working_capital_results[y].bfr

\* C1 witness: a year whose fr, bfr and tn are all non-zero.
C1_Witness ==
    /\ pc = "wc"
    /\ \E y \in DOMAIN working_capital_results :
          /\ working_capital_results[y].fr # 0
          /\ working_capital_results[y].bfr # 0
          /\ working_capital_results[y].tn # 0

\* The result is a computed one, not _create_default_score.
ScoreComputed == score_cobac.libelle_categorie # "Donnees insuffisantes"

\* The documented weighted sum of the returned sub-scores, in hundredths,
\* clamped to [0, 100].
DocumentedSum ==
    LET sd == score_cobac.scores_detailles
        w  == 25 * sd["rentabilite"] + 25 * sd["structure"] + 20 * sd["liquidite"]
              + 15 * sd["tresorerie"] + 15 * sd["croissance"]
    IN  IF w < 0 THEN 0 ELSE IF w > 10000 THEN 10000 ELSE w

\* C2 as stated: a computed score_total lies in [0, 100] and equals the
\* weighted sum of the returned sub-scores (within 1e-6).
C2_Original ==
    (pc = "score_done" /\ ScoreComputed) =>
        /\ score_cobac.score_total \in 0 .. 1000
        /\ 10 * score_cobac.score_total = DocumentedSum

\* C2 amended: a computed score_total lies in [0, 100] and is the weighted
\* sum rounded to one decimal, so it is within 0.05 of the weighted sum.
C2_RoundedWeightedSum ==
    (pc = "score_done" /\ ScoreComputed) =>
        /\ score_cobac.score_total \in 0 .. 1000
        /\ 10 * score_cobac.score_total - DocumentedSum \in (0 - 5) .. 5

\* C2 witness: a computed score whose weighted sum is not a whole tenth.
C2_Witness ==
    /\ pc = "score_done"
    /\ ScoreComputed
    /\ DocumentedSum % 10 = 5
    /\ 10 * score_cobac.score_total # DocumentedSum

\* The category the documented thresholds give, score in hundredths.
DocumentedCategorie(score100) ==
    IF score100 >= 6000 THEN "A"
    ELSE IF score100 >= 5000 THEN "B"
    ELSE IF score100 >= 4000 THEN "C"
    ELSE IF score100 >= 3000 THEN "D"
    ELSE "E"

\* Distance of a category from A.
Rank(categorie) ==
    CASE categorie = "A" -> 0
      [] categorie = "B" -> 1
      [] categorie = "C" -> 2
      [] categorie = "D" -> 3
      [] categorie = "E" -> 4

\* C3: the category is A from 60, B from 50, C from 40, D from 30, else E,
\* and of two scores the higher never gets a category further from A.
C3_CategorieThresholds ==
    pc = "cat_done" =>
        /\ cat_res[1] = DocumentedCategorie(cat_args[1])
        /\ cat_res[2] = DocumentedCategorie(cat_args[2])
        /\ cat_args[1] > cat_args[2] => Rank(cat_res[1]) <= Rank(cat_res[2])

\* C3 witness: a score exactly on the A threshold against one just below it.
C3_Witness ==
    /\ pc = "cat_done"
    /\ cat_args = <<6000, 5999>>
    /\ cat_res = <<"A", "B">>

\* global is the conjunction of the four criteria of a conformity record.
GlobalIsAnd(c) ==
    c.global = (c.rentabilite /\ c.endettement /\ c.liquidite /\ c.autonomie)

\* C4: in every conformity record returned (by scoring, by
\* check_seuils_conformite, or the default one) global is the logical AND
\* of rentabilite, endettement, liquidite and autonomie.
C4_GlobalIsConjunction ==
    /\ pc = "score_done" => GlobalIsAnd(score_cobac.conformite_cobac)
    /\ (pc = "conf_done" /\ conformite.status = "returned") => GlobalIsAnd(conformite.value)

\* C4 witness: exactly one criterion fails and global is false.
C4_Witness ==
    /\ pc = "score_done"
    /\ ~score_cobac.conformite_cobac.rentabilite
    /\ score_cobac.conformite_cobac.endettement
    /\ score_cobac.conformite_cobac.liquidite
    /\ score_cobac.conformite_cobac.autonomie
    /\ ~score_cobac.conformite_cobac.global

\* A cell holding the distinguished "undefined" marker rather than a number.
IsUndefinedMarker(cell) == cell.kind = "txt"

\* C5: in a year whose chiffre d'affaires, equity or balance-sheet total is
\* zero, the ratio with that denominator is the undefined marker, not zero.
C5_ZeroDenominatorIsMarker ==
    pc \in {"ratios", "wc"} =>
        \A y \in DOMAIN ratios_results :
            /\ ventes(df, y) = 0 =>
                  \/ IsUndefinedMarker(ratios_results[y].rentabilite_net)
                  \/ IsUndefinedMarker(ratios_results[y].rentabilite_nette)
            /\ capitaux_propres(df, y) = 0 =>
                  IsUndefinedMarker(ratios_results[y].ratio_endettement)
            /\ actif_total(df, y) = 0 =>
                  IsUndefinedMarker(ratios_results[y].ratio_autonomie)

\* The provision rate, in percent, documented for a letter category.
DocumentedTaux(categorie) ==
    CASE categorie \in {"A", "B"} -> 0
      [] categorie = "C" -> 20
      [] categorie = "D" -> 50
      [] categorie = "E" -> 100

\* C6: for a letter category A-E the provision uses that category's rate,
\* with provision_requise = montant_pret * taux, montant_net = montant_pret
\* - provision_requise, and the category returned unchanged.
C6_LetterCategoryRate ==
    (pc \in {"prov_first", "prov_done"} /\ prov_args.categorie \in {"A", "B", "C", "D", "E"}) =>
        /\ provisionnement.categorie = prov_args.categorie
        /\ provisionnement.taux_provision = DocumentedTaux(prov_args.categorie)
        /\ provisionnement.provision_requise =
              prov_args.montant_pret * DocumentedTaux(prov_args.categorie)
        /\ provisionnement.montant_net =
              100 * prov_args.montant_pret - provisionnement.provision_requise

\* The category has no provision rate in the regulatory configuration.
NoConfiguredRate ==
    prov_args.categorie \notin {"standard", "suivi_special", "douteux", "contentieux"}

\* C7 as stated: a category without a configured rate ends in a hard error.
C7_Original ==
    (pc \in {"prov_first", "prov_done"} /\ NoConfiguredRate) => provisionnement.raised

\* C7 amended: a category without a configured rate returns the fallback
\* result: category E, rate 100%, the whole loan provisioned, net amount 0.
C7_FallbackResult ==
    (pc \in {"prov_first", "prov_done"} /\ NoConfiguredRate) =>
        /\ ~provisionnement.raised
        /\ provisionnement.montant_pret = prov_args.montant_pret
        /\ provisionnement.categorie = "E"
        /\ provisionnement.taux_provision = 100
        /\ provisionnement.provision_requise = 100 * prov_args.montant_pret
        /\ provisionnement.montant_net = 0

\* C7 witness: an unknown category code with a positive loan.
C7_Witness ==
    /\ pc = "prov_done"
    /\ prov_args.categorie = "Z"
    /\ prov_args.montant_pret > 0
    /\ provisionnement.categorie = "E"

\* C8: for a fixed category, the provision of twice the loan is twice the
\* provision of the loan.
C8_ProvisionLinear ==
    pc = "prov_done" =>
        provisionnement_double.provision_requise = 2 * provisionnement.provision_requise

\* C8 witness: a configured 50% class on an odd loan amount.
C8_Witness ==
    /\ pc = "prov_done"
    /\ prov_args.categorie = "douteux"
    /\ prov_args.montant_pret = 1
    /\ provisionnement.provision_requise = 50
    /\ provisionnement_double.provision_requise = 100

\* The all-worst outcome: score 0, category E, every sub-score 0.
AllWorst ==
    /\ score_cobac.score_total = 0
    /\ score_cobac.categorie = "E"
    /\ \A c \in Criteres : score_cobac.scores_detailles[c] = 0

\* The result holds every field of a ScoreResult.
ScoreComplete ==
    /\ score_cobac.score_total \in 0 .. 1000
    /\ score_cobac.categorie \in {"A", "B", "C", "D", "E"}
    /\ DOMAIN score_cobac.scores_detailles = Criteres
    /\ DOMAIN score_cobac.conformite_cobac =
          {"rentabilite", "endettement", "liquidite", "autonomie", "global"}

SomeMapEmpty ==
    \/ DOMAIN score_args.sig = {}
    \/ DOMAIN score_args.ratios = {}
    \/ DOMAIN score_args.wc = {}

AllMapsEmpty ==
    /\ DOMAIN score_args.sig = {}
    /\ DOMAIN score_args.ratios = {}
    /\ DOMAIN score_args.wc = {}

\* C9 as stated: the result is always complete, and it is the all-worst
\* default only when the input data is entirely absent.
C9_Original ==
    pc = "score_done" => (ScoreComplete /\ (AllWorst => AllMapsEmpty))

\* C9 amended: the result is always complete, and it is the all-worst
\* default exactly when at least one of the three maps is empty.
C9_DefaultIffSomeMapEmpty ==
    pc = "score_done" => (ScoreComplete /\ (AllWorst <=> SomeMapEmpty))

\* C9 witness: SIG and ratio data present, working-capital map empty, and
\* the all-worst default returned.
C9_Witness ==
    /\ pc = "score_done"
    /\ DOMAIN score_args.sig # {}
    /\ DOMAIN score_args.ratios # {}
    /\ DOMAIN score_args.wc = {}
    /\ AllWorst

\* The year scored, and the failures of each sub-score computation: the
\* year absent from the map read, or a non-numeric string where a number
\* is parsed or compared.
Dernier == MaxKey(score_args.sig)

NonNumeric(cell) == cell.kind = "txt"

RentabiliteFails ==
    \/ Dernier \notin DOMAIN score_args.ratios
    \/ NonNumeric(score_args.ratios[Dernier].rentabilite_nette)

StructureFails ==
    \/ Dernier \notin DOMAIN score_args.ratios
    \/ NonNumeric(score_args.ratios[Dernier].ratio_endettement)
    \/ NonNumeric(score_args.ratios[Dernier].ratio_autonomie)

LiquiditeFails ==
    \/ Dernier \notin DOMAIN score_args.ratios
    \/ NonNumeric(score_args.ratios[Dernier].ratio_liquidite)

TresorerieFails ==
    \/ Dernier \notin DOMAIN score_args.wc
    \/ NonNumeric(score_args.wc[Dernier].tn)
    \/ NonNumeric(score_args.wc[Dernier].caf)

CroissanceFails ==
    /\ Cardinality(DOMAIN score_args.sig) >= 2
    /\ \E y \in {Dernier, PrevKey(score_args.sig)} :
          \/ y \notin DOMAIN score_args.ratios
          \/ NonNumeric(score_args.ratios[y].rentabilite_nette)

\* The ratio keys and the sub-scores that read each of them.
RatioKeys == {"rentabilite_nette", "ratio_endettement", "ratio_liquidite", "ratio_autonomie"}

Readers(key) ==
    CASE key = "rentabilite_nette" -> {"rentabilite", "croissance"}
      [] key = "ratio_endettement" -> {"structure"}
      [] key = "ratio_autonomie"   -> {"structure"}
      [] key = "ratio_liquidite"   -> {"liquidite"}

\* Every sub-score that does not read a non-numeric ratio has the value it
\* has when that ratio is replaced by a well-formed one.
OthersKeepTheirValue ==
    \A y \in DOMAIN score_args.ratios, key \in RatioKeys :
        NonNumeric(score_args.ratios[y][key]) =>
            \A good \in {Cell("pct", 800), Cell("dec", 130)} :
                LET repaired == [score_args.ratios EXCEPT ![y][key] = good]
                    ref == calculer_score_global(score_args.sig, repaired, score_args.wc, TRUE)
                IN  \A c \in Criteres \ Readers(key) :
                        score_cobac.scores_detailles[c] = ref.scores_detailles[c]

FailedSubScoresAreZero ==
    /\ RentabiliteFails => score_cobac.scores_detailles["rentabilite"] = 0
    /\ StructureFails => score_cobac.scores_detailles["structure"] = 0
    /\ LiquiditeFails => score_cobac.scores_detailles["liquidite"] = 0
    /\ TresorerieFails => score_cobac.scores_detailles["tresorerie"] = 0

\* C10 as stated: a failing sub-score is 0, or the neutral 7 for
\* croissance; the others keep their value and the result is a computed one.
C10_Original ==
    (pc = "score_done" /\ ~SomeMapEmpty) =>
        /\ ScoreComputed
        /\ FailedSubScoresAreZero
        /\ CroissanceFails => score_cobac.scores_detailles["croissance"] = 7
        /\ OthersKeepTheirValue

\* C10 amended: a failing sub-score is 0, or 5 for croissance (7 is the
\* score with fewer than two years of history); the others keep their
\* value and the result is a computed one.
C10_FailureDegradesOneSubScore ==
    (pc = "score_done" /\ ~SomeMapEmpty) =>
        /\ ScoreComputed
        /\ FailedSubScoresAreZero
        /\ CroissanceFails => score_cobac.scores_detailles["croissance"] = 5
        /\ Cardinality(DOMAIN score_args.sig) < 2 =>
              score_cobac.scores_detailles["croissance"] = 7
        /\ OthersKeepTheirValue

\* C10 witness: the previous year's net margin is not a number, croissance
\* falls to 5 and rentabilite, structure and liquidite keep their top tiers.
C10_Witness ==
    /\ pc = "score_done"
    /\ DOMAIN score_args.sig = Years
    /\ DOMAIN score_args.ratios = Years
    /\ NonNumeric(score_args.ratios[2022].rentabilite_nette)
    /\ score_cobac.scores_detailles["croissance"] = 5
    /\ score_cobac.scores_detailles["rentabilite"] = 25
    /\ score_cobac.scores_detailles["structure"] = 25
    /\ score_cobac.scores_detailles["liquidite"] = 20

\* The year scoring takes as the latest one.
DernierCalcule == MaxKey(sig_results)

\* The documented profitability tiers, net margin in hundredths of a percent.
ProfitabilityTier(marge) ==
    IF marge >= 1500 THEN 25
    ELSE IF marge >= 1000 THEN 20
    ELSE IF marge >= 700 THEN 16
    ELSE IF marge >= 500 THEN 12
    ELSE IF marge >= 300 THEN 8
    ELSE IF marge >= 0 THEN 4
    ELSE 0

\* C11: the run on the income statement 701 = 600000, 601 = 400000 for 2023
\* gives resultat_net 200000, a net margin of 33.3% and the profitability
\* sub-score 25; in every run the profitability sub-score is the tier of
\* the net margin the analyzer computed for the latest year.
C11_PipelineProfitability ==
    pc = "scored" =>
        /\ cpc_file = CpcScenario =>
              /\ sig_results[2023].resultat_net = 200000
              /\ ratios_results[2023].rentabilite_net = Cell("pct", 3330)
              /\ score_cobac.scores_detailles["rentabilite"] = 25
        /\ score_cobac.scores_detailles["rentabilite"] =
              ProfitabilityTier(ratios_results[DernierCalcule].rentabilite_net.val)

\* The table handed to _reshape_financial_data and the rows it returned.
RawArg == reshape_args.raw

Reshaped == reshape_res.rows

YearHeaders == {"2021", "2022", "2023"}

\* A wide table with the columns compte, libelle and the three years.
WideTable == Range(RawArg.columns) = {"compte", "libelle"} \cup YearHeaders

HeaderYear(col) ==
    CASE col = "2021" -> 2021 [] col = "2022" -> 2022 [] col = "2023" -> 2023

\* The original value of a cell, 0 when it is empty or not a number.
CellValue(cell) == IF cell.kind = "float" THEN cell.val ELSE 0

\* The entry expected for input row i and year column col.
ExpectedEntry(i, col) ==
    [account_code |-> RawArg.rows[i]["compte"].val,
     year |-> HeaderYear(col),
     amount |-> CellValue(RawArg.rows[i][col])]

EntryKey(e) == [account_code |-> e.account_code, year |-> e.year, amount |-> e.amount]

\* As many entries as (row, year column) pairs, and every expected entry
\* occurs as often among the entries as among the pairs.
OneEntryPerPair(rowset) ==
    /\ Len(Reshaped) = Cardinality(rowset) * Cardinality(YearHeaders)
    /\ \A i \in rowset, col \in YearHeaders :
          Cardinality({k \in DOMAIN Reshaped : EntryKey(Reshaped[k]) = ExpectedEntry(i, col)})
            = Cardinality({p \in rowset \X YearHeaders :
                               ExpectedEntry(p[1], p[2]) = ExpectedEntry(i, col)})

\* Regrouping by account and year: the amounts of the entries of an account
\* and a year add up to the cells of that account in that year column.
Regrouped(rowset) ==
    \A i \in rowset, col \in YearHeaders :
        LET code    == RawArg.rows[i]["compte"].val
            entries == {k \in DOMAIN Reshaped :
                           /\ Reshaped[k].account_code = code
                           /\ Reshaped[k].year = HeaderYear(col)}
            same    == {j \in rowset : RawArg.rows[j]["compte"].val = code}
        IN  SumOver([k \in entries |-> Reshaped[k].amount], entries)
              = SumOver([j \in same |-> CellValue(RawArg.rows[j][col])], same)

AllRows == 1 .. Len(RawArg.rows)

\* The rows whose account-code cell is not empty.
RowsWithCode == {i \in AllRows : ~IsNaN(RawArg.rows[i]["compte"])}

\* C12 as stated: for a wide table with the columns compte, libelle, 2021,
\* 2022 and 2023 the result has exactly one entry per (input row, year
\* column), holding the original cell value (0 when unparsable or empty),
\* and regrouping by account and year recovers the table.
C12_Original ==
    (pc = "reshape_done" /\ WideTable) =>
        /\ reshape_res.status = "returned"
        /\ OneEntryPerPair(AllRows)
        /\ Regrouped(AllRows)

\* C12 amended: when compte is the first column of such a table, the result
\* has exactly one entry per (input row whose account-code cell is not
\* empty, year column) and none for the other rows; the amount is the
\* original cell value (0 when unparsable or empty), and regrouping by
\* account and year recovers the amounts of the rows that have a code.
C12_RoundTrip ==
    (pc = "reshape_done" /\ WideTable /\ RawArg.columns[1] = "compte") =>
        /\ reshape_res.status = "returned"
        /\ OneEntryPerPair(RowsWithCode)
        /\ Regrouped(RowsWithCode)

\* C12 witness: a two-row table in the documented layout, one row with an
\* empty and an unparsable amount cell, reshaped into six entries.
C12_Witness ==
    /\ pc = "reshape_done"
    /\ RawArg.columns = <<"compte", "libelle", "2021", "2022", "2023">>
    /\ Len(RawArg.rows) = 2
    /\ \E i \in AllRows : IsNaN(RawArg.rows[i]["2022"]) /\ RawArg.rows[i]["2023"] = Texte
    /\ Len(Reshaped) = 6
    /\ \E k \in DOMAIN Reshaped : Reshaped[k].year = 2023 /\ Reshaped[k].amount = 0

\* The fixed set of natures of a ledger entry.
Natures ==
    {"produit", "charge", "actif", "passif", "encaissement",
     "decaissement_exploitation", "investissement", "financement", "autre"}

\* No rule of _determine_nature applies: the source is none of the three
\* statements, or it is the cash-flow statement and the code does not end
\* in '1'.
NoRuleApplies ==
    \/ nature_args.source \notin {"BILAN", "CPC", "FLUX_TRESORERIE"}
    \/ /\ nature_args.source = "FLUX_TRESORERIE"
       /\ ~EndsWith(nature_args.account_code, "1")

\* C13: for every account code and every source, known or not,
\* _determine_nature returns one nature of the fixed set, and 'autre'
\* when no rule applies.
C13_NatureTotal ==
    pc = "nature_done" =>
        /\ nature_res \in Natures
        /\ NoRuleApplies => nature_res = "autre"

\* C13 witness: account 701 of a source that is none of the three
\* statements is classified 'autre'.
C13_Witness ==
    /\ pc = "nature_done"
    /\ nature_args = [account_code |-> <<"7", "0", "1">>, source |-> "ANNEXE"]
    /\ nature_res = "autre"

\* An entry whose code matches no prefix rule of its statement: the
\* balance sheet holds classes 1 to 5, the income statement classes 6 and 7.
NoPrefixRule(e) ==
    \/ /\ e.source = "BILAN"
       /\ ~\E c \in {"1", "2", "3", "4", "5"} : StartsWith(e.account_code, <<c>>)
    \/ /\ e.source = "CPC"
       /\ ~\E c \in {"6", "7"} : StartsWith(e.account_code, <<c>>)

\* The three results are those of the ledger d.
ResultsAreThoseOf(d) ==
    /\ sig_results = calculate_soldes_intermediaires(d)
    /\ \E tie_up \in BOOLEAN : ratios_results = calculate_financial_ratios(d, tie_up)
    /\ working_capital_results = calculate_working_capital_indicators(d)

\* C14: an entry of the balance sheet or income statement whose code
\* matches no prefix rule has the nature 'autre', and the SIG, ratio and
\* working-capital results are those of the ledger without it.
C14_UnclassifiedExcluded ==
    pc = "wc" =>
        \A e \in df :
            NoPrefixRule(e) => (e.nature = "autre" /\ ResultsAreThoseOf(df \ {e}))

\* The ledger with the label of entry e replaced by one without keyword.
Relabelled(e) == (df \ {e}) \cup {[e EXCEPT !.account_label = "Produits divers"]}

\* C15: an income-statement entry classified as a product by its prefix is
\* counted neither as merchandise purchase nor as depreciation because of
\* its label: the SIG and the working-capital results are those of the
\* ledger in which its label holds no keyword.
C15_LabelNeverOverridesPrefix ==
    pc = "wc" =>
        \A e \in df :
            (e.source = "CPC" /\ StartsWith(e.account_code, <<"7">>)) =>
                /\ sig_results = calculate_soldes_intermediaires(Relabelled(e))
                /\ working_capital_results = calculate_working_capital_indicators(Relabelled(e))

NumericHeaders == {"2021", "2022", "2023", "2024"}

\* The table lacks an identifier column or has no numeric-year column.
StructuralIssue(raw) ==
    \/ ~({"compte", "libelle"} \subseteq Range(raw.columns))
    \/ Range(raw.columns) \cap NumericHeaders = {}

\* What a statement contributes to the consolidated entries: nothing when
\* its table has a structural issue.
Contribution(raw, source) ==
    IF StructuralIssue(raw) THEN <<>> ELSE _reshape_financial_data(raw, source).rows

FluxContribution ==
    IF flux_file = <<>> THEN <<>> ELSE Contribution(flux_file[1], "FLUX_TRESORERIE")

\* C16: when the table of a statement lacks compte or libelle or has no
\* numeric-year column, nothing is raised and load_excel_data returns the
\* consolidated entries of the other statements.
C16_StructuralIssueContributesNothing ==
    (/\ pc # "upload"
     /\ \/ StructuralIssue(bilan_file)
        \/ StructuralIssue(cpc_file)
        \/ (flux_file # <<>> /\ StructuralIssue(flux_file[1]))) =>
        /\ pc # "load_raised"
        /\ df = Indexed(Contribution(bilan_file, "BILAN") \o Contribution(cpc_file, "CPC")
                        \o FluxContribution)

\* An account code that is empty, blank, or the text of an empty cell.
BlankCode(code) == code \in {<<>>, <<" ">>, <<"n", "a", "n">>}

\* C17: whatever the position of the compte column, no entry returned by
\* _reshape_financial_data has an empty, blank or 'nan' account_code.
C17_NoBlankAccountCode ==
    pc = "reshape_done" =>
        \A k \in DOMAIN Reshaped : ~BlankCode(Reshaped[k].account_code)

\* The ledger of the same balance sheet and income statement loaded
\* without any cash-flow file.
WithoutFlux == Indexed(load_excel_data(bilan_file, cpc_file, <<>>).rows)

\* The scores a run on the ledger d can return.
ScoresOf(d) ==
    { calculer_score_global(calculate_soldes_intermediaires(d),
                            calculate_financial_ratios(d, tie_ratio),
                            AsCells(calculate_working_capital_indicators(d)),
                            tie_score) : tie_ratio \in BOOLEAN, tie_score \in BOOLEAN }

\* C18: with or without cash-flow entries, for any years, the SIG, ratio
\* and working-capital maps and the ScoreResult are the same, and the
\* cash-flow file never makes the load fail.
C18_CashFlowHasNoEffect ==
    /\ pc = "load_raised" => load_excel_data(bilan_file, cpc_file, <<>>).status = "raised"
    /\ pc = "scored" =>
          /\ ResultsAreThoseOf(WithoutFlux)
          /\ score_cobac \in ScoresOf(WithoutFlux)

\* The four ratios of a year are present as numeric strings.
NumericRatios(r) ==
    /\ r.rentabilite_nette.kind \in {"pct", "pctc"}
    /\ r.ratio_endettement.kind \in {"dec", "decc"}
    /\ r.ratio_liquidite.kind \in {"dec", "decc"}
    /\ r.ratio_autonomie.kind \in {"pct", "pctc"}

\* The documented criteria, values in hundredths: margin >= 3 percent,
\* debt ratio <= 2.0, liquidity ratio >= 1.0, autonomy >= 20 percent.
DocumentedCriteria(r, c) ==
    /\ c.rentabilite = (r.rentabilite_nette.val >= 300)
    /\ c.endettement = (r.ratio_endettement.val <= 200)
    /\ c.liquidite = (r.ratio_liquidite.val >= 100)
    /\ c.autonomie = (r.ratio_autonomie.val >= 2000)

\* C19: the four conformity criteria of the scored year are exactly the
\* inclusive inequalities margin >= 3, debt ratio <= 2.0, liquidity ratio
\* >= 1.0 and autonomy >= 20: a value equal to its threshold passes.
C19_InclusiveThresholds ==
    (/\ pc = "score_done"
     /\ ScoreComputed
     /\ Dernier \in DOMAIN score_args.ratios
     /\ NumericRatios(score_args.ratios[Dernier])) =>
        DocumentedCriteria(score_args.ratios[Dernier], score_cobac.conformite_cobac)

\* C19 witness: the four ratios of the scored year sit exactly on their
\* thresholds and the four criteria pass.
C19_Witness ==
    /\ pc = "score_done"
    /\ ScoreComputed
    /\ Dernier \in DOMAIN score_args.ratios
    /\ score_args.ratios[Dernier] =
          RatiosRec(Cell("pct", 300), Cell("dec", 200), Cell("dec", 100), Cell("pct", 2000))
    /\ score_cobac.conformite_cobac.rentabilite
    /\ score_cobac.conformite_cobac.endettement
    /\ score_cobac.conformite_cobac.liquidite
    /\ score_cobac.conformite_cobac.autonomie

\* The years older than those scoring reads: at least two SIG years (one
\* when the SIG map has a single year) are greater.
OlderYears ==
    {y \in (DOMAIN score_args.sig) \cup (DOMAIN score_args.ratios) \cup (DOMAIN score_args.wc) :
        Cardinality({z \in DOMAIN score_args.sig : z > y})
            >= Min2(2, Cardinality(DOMAIN score_args.sig))}

\* The map m with the record of year y, if it has one, replaced.
Replaced(m, y, rec) == IF y \in DOMAIN m THEN [m EXCEPT ![y] = rec] ELSE m

\* C20: the score is that of the latest year, with the year before it for
\* croissance: replacing the SIG, ratio and working-capital data of any
\* older year leaves the whole ScoreResult unchanged.
C20_OlderYearsIgnored ==
    pc = "score_done" =>
        \A y \in OlderYears, s \in SigOlder, r \in RatiosOlder, w \in WcOlder :
            score_cobac \in
                { calculer_score_global(Replaced(score_args.sig, y, s),
                                        Replaced(score_args.ratios, y, r),
                                        Replaced(score_args.wc, y, w), tie_up) :
                      tie_up \in BOOLEAN }

\* C20 witness: three years of history, a computed score whose growth
\* sub-score comes from 2022 and 2023, and data for 2021 that would score
\* otherwise.
C20_Witness ==
    /\ pc = "score_done"
    /\ DOMAIN score_args.sig = Years \cup {OlderYear}
    /\ DOMAIN score_args.ratios = Years \cup {OlderYear}
    /\ DOMAIN score_args.wc = Years \cup {OlderYear}
    /\ OlderYears = {OlderYear}
    /\ score_args.ratios[OlderYear].rentabilite_nette = Cell("txt", 0)
    /\ score_cobac.scores_detailles["rentabilite"] = 25
    /\ score_cobac.scores_detailles["croissance"] = 9
    /\ score_cobac.scores_detailles["tresorerie"] = 15

\* The ratios of the scored year, and their being numeric strings.
RatiosDernier == score_args.ratios[Dernier]

StructureNumeric ==
    /\ Dernier \in DOMAIN score_args.ratios
    /\ RatiosDernier.ratio_endettement.kind \in {"dec", "decc"}
    /\ RatiosDernier.ratio_autonomie.kind \in {"pct", "pctc", "dec", "decc"}

\* The documented debt part, debt ratio in hundredths.
DocumentedDebtPart(e) ==
    IF e <= 50 THEN 15
    ELSE IF e <= 100 THEN 12
    ELSE IF e <= 150 THEN 9
    ELSE IF e <= 200 THEN 6
    ELSE 3

\* The documented autonomy part, autonomy in hundredths of a percent.
DocumentedAutonomyPart(a) ==
    IF a >= 5000 THEN 10
    ELSE IF a >= 4000 THEN 8
    ELSE IF a >= 3000 THEN 6
    ELSE IF a >= 2000 THEN 4
    ELSE 2

\* C21: the structure sub-score is the debt part (<= 0.5: 15, <= 1.0: 12,
\* <= 1.5: 9, <= 2.0: 6, above: 3) plus the autonomy part (>= 50: 10,
\* >= 40: 8, >= 30: 6, >= 20: 4, below: 2); debt ratio 0.4 with autonomy 55%
\* gives 25 and the sub-score never exceeds 25.
C21_StructureSteps ==
    (pc = "score_done" /\ ScoreComputed) =>
        /\ score_cobac.scores_detailles["structure"] <= 25
        /\ StructureNumeric =>
              /\ score_cobac.scores_detailles["structure"] =
                    DocumentedDebtPart(RatiosDernier.ratio_endettement.val)
                    + DocumentedAutonomyPart(RatiosDernier.ratio_autonomie.val)
              /\ (/\ RatiosDernier.ratio_endettement.val = 40
                  /\ RatiosDernier.ratio_autonomie.val = 5500) =>
                    score_cobac.scores_detailles["structure"] = 25

\* C21 witness: debt ratio 0.40 with autonomy 55.0% scored 15 + 10 = 25.
C21_Witness ==
    /\ pc = "score_done"
    /\ ScoreComputed
    /\ StructureNumeric
    /\ RatiosDernier.ratio_endettement.val = 40
    /\ RatiosDernier.ratio_autonomie.val = 5500
    /\ score_cobac.scores_detailles["structure"] = 25

\* The net margin of the scored year is present as a numeric string.
MarginNumeric ==
    /\ Dernier \in DOMAIN score_args.ratios
    /\ RatiosDernier.rentabilite_nette.kind \in {"pct", "pctc", "dec", "decc"}

\* The profitability sub-score of the same arguments with the net margin
\* of the scored year replaced by m.
RentabiliteWith(m) ==
    _score_rentabilite(
        [score_args.ratios EXCEPT ![Dernier].rentabilite_nette = Cell("pct", m)], Dernier)

\* C22: the profitability sub-score is the tier of the latest year's net
\* margin (>= 15: 25, >= 10: 20, >= 7: 16, >= 5: 12, >= 3: 8, >= 0: 4,
\* negative: 0); a larger margin never scores less, and the sub-score is
\* always within 0..25.
C22_ProfitabilitySteps ==
    (pc = "score_done" /\ ScoreComputed) =>
        /\ score_cobac.scores_detailles["rentabilite"] \in 0 .. 25
        /\ MarginNumeric =>
              /\ score_cobac.scores_detailles["rentabilite"] =
                    ProfitabilityTier(RatiosDernier.rentabilite_nette.val)
              /\ \A m \in MarginGrid :
                    m >= RatiosDernier.rentabilite_nette.val =>
                        RentabiliteWith(m) >= score_cobac.scores_detailles["rentabilite"]

\* C22 witness: a margin exactly on 7% in the latest year scored 16, the
\* year before having a margin of 12%.
C22_Witness ==
    /\ pc = "score_done"
    /\ ScoreComputed
    /\ DOMAIN score_args.ratios = Years
    /\ score_args.ratios[2022].rentabilite_nette = Cell("pct", 1200)
    /\ score_args.ratios[2023].rentabilite_nette = Cell("pct", 700)
    /\ score_cobac.scores_detailles["rentabilite"] = 16

\* The working-capital indicators of the scored year, all three numbers.
WcDernier == score_args.wc[Dernier]

TresorerieNumeric ==
    /\ Dernier \in DOMAIN score_args.wc
    /\ IsNumber(WcDernier.tn) /\ IsNumber(WcDernier.caf) /\ IsNumber(WcDernier.bfr)

\* The four documented cases of the treasury sub-score, in order.
TresorerieCase1 ==
    /\ WcDernier.tn.val > 0
    /\ WcDernier.caf.val > 0
    /\ WcDernier.caf.val > Abs(WcDernier.bfr.val)

TresorerieCase2 == WcDernier.tn.val > 0 /\ WcDernier.caf.val > 0

TresorerieCase3 == WcDernier.tn.val > 0 \/ WcDernier.caf.val > 0

TresorerieCase4 == WcDernier.tn.val >= 0 - WcDernier.caf.val

\* C23: the treasury sub-score is 15 exactly when TN > 0, CAF > 0 and
\* CAF > |BFR|; the later cases apply only when no earlier one matches; it
\* is 0 when no case matches, and always within 0..15.
C23_TresorerieOrderedCases ==
    (pc = "score_done" /\ ScoreComputed) =>
        /\ score_cobac.scores_detailles["tresorerie"] \in 0 .. 15
        /\ TresorerieNumeric =>
              /\ score_cobac.scores_detailles["tresorerie"] = 15 <=> TresorerieCase1
              /\ (~TresorerieCase1 /\ TresorerieCase2) =>
                    score_cobac.scores_detailles["tresorerie"] = 12
              /\ (~TresorerieCase2 /\ TresorerieCase3) =>
                    score_cobac.scores_detailles["tresorerie"] = 8
              /\ (~TresorerieCase3 /\ TresorerieCase4) =>
                    score_cobac.scores_detailles["tresorerie"] = 4
              /\ ~(TresorerieCase1 \/ TresorerieCase2 \/ TresorerieCase3 \/ TresorerieCase4) =>
                    score_cobac.scores_detailles["tresorerie"] = 0

\* C23 witness: TN > 0 and CAF > 0 with CAF equal to |BFR|, so the first
\* case does not match and the second gives 12.
C23_Witness ==
    /\ pc = "score_done"
    /\ ScoreComputed
    /\ TresorerieNumeric
    /\ WcDernier.tn.val = 1
    /\ WcDernier.caf.val = 2
    /\ WcDernier.bfr.val = 0 - 2
    /\ score_cobac.scores_detailles["tresorerie"] = 12

\* The two latest SIG years have numeric revenue, positive the year before,
\* and numeric net margins.
PrecedentYear == PrevKey(score_args.sig)

GrowthNumeric ==
    /\ Cardinality(DOMAIN score_args.sig) >= 2
    /\ {Dernier, PrecedentYear} \subseteq DOMAIN score_args.ratios
    /\ IsNumber(score_args.sig[Dernier].chiffre_affaires)
    /\ IsNumber(score_args.sig[PrecedentYear].chiffre_affaires)
    /\ score_args.sig[PrecedentYear].chiffre_affaires.val > 0
    /\ \A y \in {Dernier, PrecedentYear} :
          score_args.ratios[y].rentabilite_nette.kind \in {"pct", "pctc", "dec", "decc"}

\* Revenue growth between the two latest years is above (at most, below)
\* pctg percent.
GrowthAbove(pctg) ==
    (score_args.sig[Dernier].chiffre_affaires.val
        - score_args.sig[PrecedentYear].chiffre_affaires.val) * 100
      > pctg * score_args.sig[PrecedentYear].chiffre_affaires.val

GrowthAtMost(pctg) == ~GrowthAbove(pctg)

GrowthBelow(pctg) ==
    (score_args.sig[Dernier].chiffre_affaires.val
        - score_args.sig[PrecedentYear].chiffre_affaires.val) * 100
      < pctg * score_args.sig[PrecedentYear].chiffre_affaires.val

\* The gain of net margin between the two latest years, in hundredths.
MarginGain ==
    score_args.ratios[Dernier].rentabilite_nette.val
      - score_args.ratios[PrecedentYear].rentabilite_nette.val

\* C24 as stated: the growth sub-score is 7 with fewer than two years of
\* SIG history; otherwise revenue growth > 10% with a margin gain > 2 points
\* gives 15 and revenue growth <= -5%, exactly -5% included, gives 3.
C24_Original ==
    (pc = "score_done" /\ ScoreComputed) =>
        /\ Cardinality(DOMAIN score_args.sig) < 2 =>
              score_cobac.scores_detailles["croissance"] = 7
        /\ GrowthNumeric =>
              /\ (GrowthAbove(10) /\ MarginGain > 200) =>
                    score_cobac.scores_detailles["croissance"] = 15
              /\ GrowthAtMost(0 - 5) => score_cobac.scores_detailles["croissance"] = 3

\* C24 amended: the growth sub-score is 7 with fewer than two years of SIG
\* history; otherwise revenue growth > 10% with a margin gain > 2 points
\* gives 15, revenue growth below -5% gives 3, and exactly -5% gives 6.
C24_GrowthTiers ==
    (pc = "score_done" /\ ScoreComputed) =>
        /\ Cardinality(DOMAIN score_args.sig) < 2 =>
              score_cobac.scores_detailles["croissance"] = 7
        /\ GrowthNumeric =>
              /\ (GrowthAbove(10) /\ MarginGain > 200) =>
                    score_cobac.scores_detailles["croissance"] = 15
              /\ GrowthBelow(0 - 5) => score_cobac.scores_detailles["croissance"] = 3
              /\ (GrowthAtMost(0 - 5) /\ ~GrowthBelow(0 - 5)) =>
                    score_cobac.scores_detailles["croissance"] = 6

\* C24 witness: revenue 100 then 95, a fall of exactly 5%, scored 6.
C24_Witness ==
    /\ pc = "score_done"
    /\ ScoreComputed
    /\ GrowthNumeric
    /\ score_args.sig[PrecedentYear].chiffre_affaires.val = 100
    /\ score_args.sig[Dernier].chiffre_affaires.val = 95
    /\ score_cobac.scores_detailles["croissance"] = 6

\* The denominators of the three scored ratios in the year scored.
EquityIsZero == capitaux_propres(df, DernierCalcule) = 0

RevenueIsZero == ventes(df, DernierCalcule) = 0

BalanceTotalIsZero == actif_total(df, DernierCalcule) = 0

\* The two parts of the structure sub-score of the run, from the ratio
\* strings the analyzer produced.
DebtPartScored ==
    score_cobac.scores_detailles["structure"]
      - DocumentedAutonomyPart(ratios_results[DernierCalcule].ratio_autonomie.val)

AutonomyPartScored ==
    score_cobac.scores_detailles["structure"]
      - DocumentedDebtPart(ratios_results[DernierCalcule].ratio_endettement.val)

\* C25: when the denominator of a scored ratio is zero in the latest year,
\* the run gives that criterion its lowest tier, debt part 3 for equity 0,
\* profitability 0 for revenue 0, autonomy part 2 for a balance-sheet total
\* of 0, and scoring returns a computed result.
C25_ZeroDenominatorLowestTier ==
    pc = "scored" =>
        /\ ScoreComputed
        /\ EquityIsZero => DebtPartScored = 3
        /\ RevenueIsZero => score_cobac.scores_detailles["rentabilite"] = 0
        /\ BalanceTotalIsZero => AutonomyPartScored = 2

\* The balance-sheet amounts of a year under the given account codes.
BilanAmount(year, codes) ==
    SumAmount({e \in bilan_data(df, year) : e.account_code \in codes})

BilanStocks(year) ==
    SumAmount({e \in bilan_data(df, year) : StartsWith(e.account_code, <<"3">>)})

PayableCodes == {<<"4", "0", "1">>, <<"4", "4", "1">>, <<"4", "3", "1">>}

\* C26: for the ledger the normalizer produced, the bfr of each year is
\* (stocks 3x + trade receivables 411) - (payables 401 + 441 + 431), and
\* passif_circulant is the sum of the 401, 441 and 431 amounts of the year.
C26_BfrSubtractsPayables ==
    pc = "wc" =>
        \A y \in DOMAIN working_capital_results :
            /\ working_capital_results[y].passif_circulant = BilanAmount(y, PayableCodes)
            /\ working_capital_results[y].bfr =
                  (BilanStocks(y) + BilanAmount(y, {<<"4", "1", "1">>}))
                  - BilanAmount(y, PayableCodes)

\* Labels that contain 'provision'.
ContainsProvision(account_label) ==
    account_label \in {"Dotations aux provisions", "Reprises sur amortissements et provisions"}

\* The charges of the income statement of a year.
Charges(d, year) == {e \in cpc_data(d, year) : e.nature = "charge"}

DepreciationCharges(d, year) ==
    SumAmount({e \in Charges(d, year) :
        e.account_code = <<"6", "8", "1">> \/ Contains(e.account_label, "amortissement")})

ProvisionCharges(d, year) ==
    SumAmount({e \in Charges(d, year) : ContainsProvision(e.account_label)})

\* caf less the net result of the year in the working-capital result of d.
CafOverResult(d, year) ==
    calculate_working_capital_indicators(d)[year].caf
      - (ventes(d, year) - charges_total(d, year))

\* C27: for every year caf = net result + |depreciation charges| +
\* |provision charges|, and a provision charge of magnitude p raises the
\* caf by p, at equal net result, relative to the ledger without it.
C27_CafAddsProvisions ==
    pc = "wc" =>
        /\ \A y \in DOMAIN working_capital_results :
              working_capital_results[y].caf =
                  sig_results[y].resultat_net
                  + Abs(DepreciationCharges(df, y)) + Abs(ProvisionCharges(df, y))
        /\ \A e \in df :
              (/\ e.source = "CPC" /\ e.nature = "charge"
               /\ ContainsProvision(e.account_label)
               /\ \E o \in df \ {e} : o.year = e.year) =>
                  CafOverResult(df, e.year) = CafOverResult(df \ {e}, e.year) + Abs(e.amount)

\* The net result the caf of a year was built on: caf less the
\* depreciation term of calculate_working_capital_indicators.
ResultUnderCaf(year) ==
    working_capital_results[year].caf
      - Abs(SumAmount({e \in cpc_data(df, year) :
            e.account_code = <<"6", "8", "1">> \/ Contains(e.account_label, "amortissement")}))

\* The documented net result: revenue less the magnitude of the charges.
DocumentedResult(year) ==
    SumAmount({e \in df : e.year = year /\ e.source = "CPC" /\ e.nature = "produit"})
      - Abs(SumAmount({e \in df : e.year = year /\ e.source = "CPC" /\ e.nature = "charge"}))

\* C28: for every ledger and year the SIG, the ratios and the caf use the
\* same net result, chiffre_affaires - |sum of CHARGE amounts| whatever the
\* sign of the stored charges, and the reported net margin is that net
\* result over chiffre_affaires, in percent.
C28_SameNetResult ==
    pc = "wc" =>
        \A y \in DOMAIN sig_results :
            /\ sig_results[y].resultat_net = DocumentedResult(y)
            /\ ratios_results[y].resultat_net = Cell("float", sig_results[y].resultat_net)
            /\ ResultUnderCaf(y) = sig_results[y].resultat_net
            /\ sig_results[y].chiffre_affaires.val > 0 =>
                  \E tie_up \in BOOLEAN :
                      ratios_results[y].rentabilite_net =
                          Cell("pct", 10 * RoundDiv(sig_results[y].resultat_net * 1000,
                                                    sig_results[y].chiffre_affaires.val, tie_up))

\* The largest value of each sub-score.
MaxPoints ==
    [rentabilite |-> 25, structure |-> 25, liquidite |-> 20,
     tresorerie |-> 15, croissance |-> 15]

\* C29: every sub-score is within its cap of 25, 25, 20, 15 and 15 points,
\* the returned score_total is at most 21, so none of the thresholds 60,
\* 50, 40 and 30 is reached and the returned categorie is always 'E'.
C29_ScoreAtMost21 ==
    pc = "score_done" =>
        /\ \A c \in Criteres : score_cobac.scores_detailles[c] \in 0 .. MaxPoints[c]
        /\ score_cobac.score_total <= 210
        /\ score_cobac.categorie = "E"

\* C29 witness: every sub-score at its cap, score_total 21.0, category E.
C29_Witness ==
    /\ pc = "score_done"
    /\ ScoreComputed
    /\ \A c \in Criteres : score_cobac.scores_detailles[c] = MaxPoints[c]
    /\ score_cobac.score_total = 210
    /\ score_cobac.categorie = "E"

\* tn and caf of the scored year are numbers.
TnCafNumeric ==
    /\ Dernier \in DOMAIN score_args.wc
    /\ IsNumber(WcDernier.tn) /\ IsNumber(WcDernier.caf)

TnCafBothZero == WcDernier.tn.val = 0 /\ WcDernier.caf.val = 0

\* C30: the treasury sub-score is 4, the fourth case tn >= -caf, only when
\* tn = 0 and caf = 0; with tn <= 0 and caf <= 0 not both zero it is 0; and
\* it is always one of 0, 4, 8, 12 and 15.
C30_FourthCaseOnlyAtZero ==
    (pc = "score_done" /\ ScoreComputed) =>
        /\ score_cobac.scores_detailles["tresorerie"] \in {0, 4, 8, 12, 15}
        /\ TnCafNumeric =>
              /\ score_cobac.scores_detailles["tresorerie"] = 4 => TnCafBothZero
              /\ (WcDernier.tn.val <= 0 /\ WcDernier.caf.val <= 0 /\ ~TnCafBothZero) =>
                    score_cobac.scores_detailles["tresorerie"] = 0

\* C30 witness: tn = 0 and caf = 0 with a non-zero bfr, scored 4.
C30_Witness ==
    /\ pc = "score_done"
    /\ ScoreComputed
    /\ TnCafNumeric
    /\ TnCafBothZero
    /\ WcDernier.bfr.val = 0 - 1
    /\ score_cobac.scores_detailles["tresorerie"] = 4

====
